---- MODULE Spec2Model ----
(***************************************************************************)
(* Model of the stratuscode terminal client (crates/stratuscode-cli).      *)
(*                                                                         *)
(*   Spec      the transport: BackendClient::call on the UI thread and on  *)
(*             background threads, the reader thread, the worker's pipes   *)
(*             and the notification channel drained by the main loop.      *)
(*   EditSpec  the input buffer: handle_key / handle_paste in Normal mode. *)
(*   DispSpec  App::handle_notification applied to the session state.      *)
(***************************************************************************)
EXTENDS Integers, Sequences, FiniteSets, TLC

\* ------------------------------------------------------------------ bounds
MaxCalls == 3
MaxLines == 3
MaxInputBytes == 10
MaxRevision == 3
MaxQueryLen == 2
MaxModels == 3
\* characters typed into a custom answer
MaxCustomLen == 1
\* bytes of a buffer that only pastes fill
MaxPasteBytes == 15

\* ------------------------------------------------------- program constants
InitialNextId == 1

VARIABLES
  \* BackendClient and its two pipes
  next_id,       \* BackendClient.next_id
  lockOwner,     \* owner of the Mutex<BackendClient>, or "none"
  pending,       \* BackendClient.pending: request id -> caller owning the rx
  pc,            \* position of each calling thread inside call()
  callId,        \* local `id` of each calling thread
  chan,          \* the one-shot mpsc channel of each calling thread
  result,        \* what the last call() of each thread returned
  stdinFrames,   \* request ids written to the worker's stdin, in order
  stdoutPipe,    \* lines the worker wrote that the reader has not read yet
  workerAlive,   \* FALSE once the worker has exited (both pipes closed)
  readerDone,    \* TRUE once the reader thread has seen end of stream
  notifyChan,    \* notify_tx / notify_rx
  \* history of the transport
  issued,        \* ids handed out by fetch_add, in call order
  linesEmitted,  \* number of lines the worker has written
  notifEmitted,  \* number of notification lines the worker has written
  applied,       \* the notifications handled, in order: ordinal among the
                 \* notifications and line number on the worker's stdout
  dropped,       \* the responses the reader dropped for want of a pending entry
  \* App: session state and flags touched by handle_notification
  state,         \* App.state (ChatState)
  mode,          \* App.mode
  history_needs_refresh,
  timeline_revision,
  dirty,
  toast,
  reindex_inflight,
  show_splash,
  auto_scroll,
  scroll_from_bottom,
  reasoning_effort,
  firstSeen,     \* ids of the timeline in the order they were first seen
  lastEvent,     \* the event of the last upsert since the last full-state replace
  \* App: the editable buffer
  input,         \* App.input as a sequence of UTF-8 bytes
  cursor,        \* App.cursor, a byte offset
  attachments,   \* App.attachments
  markerData,    \* for each image sentinel, left to right, the image it was inserted for
  lastOp,        \* the last editing event and the buffer it was applied to
  \* App: the timeline cache and what the last frame did with it
  compact_view,
  spinner_index,
  timeline_cache_rev,
  timeline_cache_width,
  timeline_cache_compact,
  timeline_cache,
  lastRender,    \* the last call of build_timeline_lines_cached
  lastEsc,       \* the last Escape key: the mode and the loading flag it found
  lastNotif,     \* method and payload shape of the notification handled last
  \* the threads the UI thread spawns, and what each thread is calling
  spawned,       \* closures handed to std::thread::spawn that have not yet run
  calling,       \* the remote call each thread is inside of, or NoJob
  should_quit,
  \* App: the question overlay, and the channel of the poll threads
  question,      \* App.question, or NoQuestion
  question_request_inflight,
  ui_rx,         \* ui_tx / ui_rx
  \* App: the command palette
  command_query, \* a string, kept as a sequence of characters
  command_selected,
  command_offset,
  \* App: the model picker
  model_entries,
  model_query,
  model_selected,
  model_offset,
  custom_model_mode,
  custom_model_input,
  shown_models,  \* the list the picker last filtered, and how it ordered it
  \* App: the session history
  session_list,
  session_selected,
  session_offset,
  session_rename_active,
  session_rename_input,
  \* App: the file mention overlay
  file_selected,
  \* App: the todo strip and its poll
  todos,
  todos_expanded,
  todos_request_inflight

transportVars == <<next_id, lockOwner, pending, pc, callId, chan, result,
                   stdinFrames, stdoutPipe, workerAlive, readerDone,
                   notifyChan, issued, linesEmitted, notifEmitted, applied, dropped>>
sessionVars == <<state, mode, history_needs_refresh, timeline_revision, dirty,
                 toast, reindex_inflight, show_splash, auto_scroll,
                 scroll_from_bottom, reasoning_effort, firstSeen, lastEvent>>
editVars == <<input, cursor, attachments, markerData, lastOp>>
renderVars == <<compact_view, spinner_index, timeline_cache_rev,
                timeline_cache_width, timeline_cache_compact, timeline_cache,
                lastRender>>
threadVars == <<spawned, calling, should_quit>>
questionVars == <<question, question_request_inflight, ui_rx>>
paletteVars == <<command_query, command_selected, command_offset>>
pickerVars == <<model_entries, model_query, model_selected, model_offset,
                custom_model_mode, custom_model_input, shown_models>>
listVars == <<paletteVars, pickerVars>>
overlayVars == <<questionVars, listVars>>
historyVars == <<session_list, session_selected, session_offset,
                 session_rename_active, session_rename_input>>
todoVars == <<todos, todos_expanded, todos_request_inflight>>
extraVars == <<historyVars, file_selected, todoVars>>
uiVars == <<renderVars, threadVars, overlayVars, lastEsc, lastNotif, extraVars>>
vars == <<transportVars, sessionVars, editVars, uiVars>>

\* ================================================================ transport

Callers == {"ui", "bg1", "bg2"}

\* AtomicU64::fetch_add(1): the new value of the counter
FetchAdd_stuck(n) == n
FetchAdd(n) == n + 1

\* Mutex<BackendClient>::lock() succeeds only when nobody holds the client
ClientLockFree_nolock(owner) == TRUE
ClientLockFree(owner) == owner = "none"

\* map.remove(&id): the entry of the pending table a response with this id takes
PendingRemove_any(map, id) ==
  IF DOMAIN map = {} THEN {} ELSE {CHOOSE k \in DOMAIN map : TRUE}
PendingRemove(map, id) == IF id \in DOMAIN map THEN {id} ELSE {}

\* mpsc::Sender::send on the notification channel
NotifySend_front(q, n) == <<n>> \o q
NotifySend(q, n) == Append(q, n)

MapWithout(map, ks) == [k \in DOMAIN map \ ks |-> map[k]]
MapWith(map, k, v) == [x \in DOMAIN map \cup {k} |-> IF x = k THEN v ELSE map[x]]

\* the Sender of a caller's channel lives in the pending table until removed
TxAlive(c) == \E k \in DOMAIN pending : pending[k] = c

\* rx.recv() returns: a value is queued, or every Sender is gone
RecvReady(c) == chan[c] # <<>> \/ ~TxAlive(c)

\* ------------------------------------------------------------ JSON values
EventIds == {"e1", "e2", "e3"}
Contents == {"v1", "v2"}

\* backend.rs TimelineEvent (the fields the client reads)
Ev(i, c) == [id |-> i, kind |-> "assistant", content |-> c, tool_name |-> "none"]

NoEvent == Ev("none", "none")

Events == {Ev(i, c) : i \in EventIds, c \in Contents}
            \cup {[id |-> "e3", kind |-> "tool_result", content |-> "v1",
                   tool_name |-> "codesearch"]}

\* backend.rs ChatState (the fields the client reads)
MkState(tl, loading, ag, sid) ==
  [timeline_events |-> tl, is_loading |-> loading, agent |-> ag,
   session_id |-> sid, context_status |-> "none", tokens |-> "n0",
   session_tokens |-> "none", context_usage |-> "n0",
   reasoning_effort_override |-> "none"]

InitialState == MkState(<<>>, FALSE, "build", "s1")

StatePayloads ==
  { MkState(<<>>, FALSE, "build", "s1"),
    MkState(<<Ev("e2", "v1"), Ev("e1", "v1")>>, TRUE, "plan", "s1"),
    [MkState(<<Ev("e3", "v2")>>, FALSE, "plan", "s2")
       EXCEPT !.reasoning_effort_override = "high"] }

\* a JSON value, with the shape serde finds in it; the fields that do not
\* belong to the shape hold fixed fillers
JsonNull ==
  [t |-> "null", chatstate |-> InitialState, event |-> Ev("e1", "v1"),
   str |-> "", bool |-> FALSE, obj |-> [k \in {"tokens", "sessionTokens", "contextUsage"} |-> "absent"]]
JsonState(s) == [JsonNull EXCEPT !.t = "chatstate", !.chatstate = s]
JsonEvent(e) == [JsonNull EXCEPT !.t = "event", !.event = e]
JsonStr(x) == [JsonNull EXCEPT !.t = "string", !.str = x]
JsonBool(b) == [JsonNull EXCEPT !.t = "bool", !.bool = b]
JsonObj(u) == [JsonNull EXCEPT !.t = "object", !.obj = u]

Notif(m, p) == [method |-> m, params |-> p]

\* tokens_update payloads: an object holding any subset of the three keys,
\* each either well formed or not
TokenKeys == {"tokens", "sessionTokens", "contextUsage"}
TokenUpdates ==
  { [k \in TokenKeys |-> IF k \in present THEN val ELSE "absent"] :
      present \in SUBSET TokenKeys, val \in {"n7", "malformed"} }

NotifInputs ==
       {Notif("state", JsonState(s)) : s \in StatePayloads}
  \cup {Notif("state", JsonNull)}
  \cup {Notif("timeline_event", JsonEvent(e)) : e \in Events}
  \cup {Notif("timeline_event", JsonStr("oops"))}
  \cup {Notif("tokens_update", JsonObj(u)) : u \in TokenUpdates}
  \cup {Notif("tokens_update", JsonNull)}
  \cup {Notif("context_status", JsonStr("compacting")),
        Notif("context_status", JsonNull)}
  \cup {Notif("plan_exit_proposed", JsonBool(b)) : b \in BOOLEAN}
  \cup {Notif("plan_exit_proposed", JsonStr("true"))}
  \cup {Notif("session_changed", JsonStr("s2")),
        Notif("session_changed", JsonNull)}
  \cup {Notif("error", JsonStr("boom")), Notif("error", JsonNull)}
  \cup {Notif("ping", JsonNull)}

\* the notifications the worker writes in the transport specification
WorkerNotifs ==
  { Notif("timeline_event", JsonEvent(Ev("e1", "v1"))),
    Notif("timeline_event", JsonEvent(Ev("e2", "v1"))) }

\* ======================================================= session dispatcher

EventIdsOf(tl) == [i \in 1..Len(tl) |-> tl[i].id]

\* iter().position(|e| e.id == id): 0 when absent
Position(tl, id) ==
  IF \E i \in 1..Len(tl) : tl[i].id = id
    THEN CHOOSE i \in 1..Len(tl) :
           tl[i].id = id /\ \A j \in 1..(i-1) : tl[j].id # id
    ELSE 0

\* the timeline after App::upsert_timeline
UpsertInto_front(tl, ev) ==
  IF Position(tl, ev.id) # 0
    THEN <<ev>> \o [i \in 1..(Len(tl)-1) |->
                      IF i < Position(tl, ev.id) THEN tl[i] ELSE tl[i+1]]
    ELSE Append(tl, ev)
UpsertInto(tl, ev) ==
  IF Position(tl, ev.id) # 0
    THEN [tl EXCEPT ![Position(tl, ev.id)] = ev]
    ELSE Append(tl, ev)

\* u64::saturating_add(1); the counter stays far below u64::MAX
SaturatingInc_unchanged(n) == n
SaturatingInc(n) == n + 1

\* App::set_toast
SetToast(msg) == toast' = msg /\ dirty' = TRUE

\* App::update_state
UpdateState(next) ==
  /\ state' = next
  /\ reasoning_effort' = IF next.reasoning_effort_override # "none"
                           THEN next.reasoning_effort_override
                           ELSE reasoning_effort
  /\ show_splash' = IF next.timeline_events # <<>> THEN FALSE ELSE show_splash
  /\ auto_scroll' = IF ~state.is_loading /\ next.is_loading THEN TRUE ELSE auto_scroll
  /\ scroll_from_bottom' = IF auto_scroll' THEN 0 ELSE scroll_from_bottom
  /\ history_needs_refresh' = IF mode = "SessionHistory" THEN TRUE
                                ELSE history_needs_refresh
  /\ timeline_revision' = SaturatingInc(timeline_revision)
  /\ dirty' = TRUE
  /\ firstSeen' = EventIdsOf(next.timeline_events)
  /\ lastEvent' = NoEvent
  /\ UNCHANGED <<mode, toast, reindex_inflight>>

\* App::upsert_timeline, with the reindex notice of handle_notification
UpsertTimeline(event) ==
  LET reindexDone == /\ reindex_inflight
                     /\ event.kind = "tool_result"
                     /\ event.tool_name = "codesearch"
  IN
  /\ reindex_inflight' = IF reindexDone THEN FALSE ELSE reindex_inflight
  /\ toast' = IF reindexDone THEN "Reindex complete" ELSE toast
  /\ state' = [state EXCEPT !.timeline_events = UpsertInto(@, event)]
  /\ firstSeen' = IF Position(state.timeline_events, event.id) # 0
                    THEN firstSeen ELSE Append(firstSeen, event.id)
  /\ lastEvent' = event
  /\ show_splash' = FALSE
  /\ timeline_revision' = SaturatingInc(timeline_revision)
  /\ scroll_from_bottom' = IF auto_scroll THEN 0 ELSE scroll_from_bottom
  /\ history_needs_refresh' = IF mode = "SessionHistory" THEN TRUE
                                ELSE history_needs_refresh
  /\ dirty' = TRUE
  /\ UNCHANGED <<mode, auto_scroll, reasoning_effort>>

\* the tokens_update arm: merge the subfields that are present and well formed
MergeTokens(u) ==
  LET ok(k) == u[k] # "absent" /\ u[k] # "malformed" IN
  [state EXCEPT !.tokens = IF ok("tokens") THEN u["tokens"] ELSE @,
                !.session_tokens = IF ok("sessionTokens") THEN u["sessionTokens"] ELSE @,
                !.context_usage = IF ok("contextUsage") THEN u["contextUsage"] ELSE @]

SessionUnchanged == UNCHANGED sessionVars

\* serde_json::from_value::<ChatState> and ::<TimelineEvent> succeed
\* (app.rs:289, 294)
ParsesAs_anything(p, shape) == TRUE
ParsesAs(p, shape) == p.t = shape

\* what is kept of a notification once it has been handled
Tag(n) == [method |-> n.method, shape |-> n.params.t]
NoTag == [method |-> "none", shape |-> "null"]

\* the plan_exit_proposed arm: `params.as_bool() == Some(true)` and the agent
\* is "plan" (app.rs:331-335)
PlanExitAccepted_anyAgent(p, agent) == p.t = "bool" /\ p.bool
PlanExitAccepted(p, agent) == p.t = "bool" /\ p.bool /\ agent = "plan"

\* App::handle_notification
HandleNotification(n) ==
  LET p == n.params IN
  CASE n.method = "state" ->
         IF ParsesAs(p, "chatstate")
           THEN UpdateState(p.chatstate) ELSE SessionUnchanged
    [] n.method = "timeline_event" ->
         IF ParsesAs(p, "event")
           THEN UpsertTimeline(p.event) ELSE SessionUnchanged
    [] n.method = "tokens_update" ->
         /\ state' = MergeTokens(p.obj)
         /\ dirty' = TRUE
         /\ UNCHANGED <<mode, history_needs_refresh, timeline_revision, toast,
                        reindex_inflight, show_splash, auto_scroll,
                        scroll_from_bottom, reasoning_effort, firstSeen, lastEvent>>
    [] n.method = "context_status" ->
         IF p.t = "string"
           THEN /\ state' = [state EXCEPT !.context_status = p.str]
                /\ dirty' = TRUE
                /\ UNCHANGED <<mode, history_needs_refresh, timeline_revision,
                               toast, reindex_inflight, show_splash, auto_scroll,
                               scroll_from_bottom, reasoning_effort, firstSeen, lastEvent>>
           ELSE SessionUnchanged
    [] n.method = "plan_exit_proposed" ->
         /\ mode' = IF PlanExitAccepted(p, state.agent)
                      THEN "PlanActions" ELSE mode
         /\ dirty' = TRUE
         /\ UNCHANGED <<state, history_needs_refresh, timeline_revision, toast,
                        reindex_inflight, show_splash, auto_scroll,
                        scroll_from_bottom, reasoning_effort, firstSeen, lastEvent>>
    [] n.method = "session_changed" ->
         /\ state' = IF p.t = "string" THEN [state EXCEPT !.session_id = p.str]
                       ELSE state
         /\ history_needs_refresh' = IF mode = "SessionHistory" THEN TRUE
                                       ELSE history_needs_refresh
         /\ dirty' = TRUE
         /\ UNCHANGED <<mode, timeline_revision, toast, reindex_inflight,
                        show_splash, auto_scroll, scroll_from_bottom,
                        reasoning_effort, firstSeen, lastEvent>>
    [] n.method = "error" ->
         IF p.t = "string"
           THEN /\ SetToast(p.str)
                /\ UNCHANGED <<state, mode, history_needs_refresh,
                               timeline_revision, reindex_inflight, show_splash,
                               auto_scroll, scroll_from_bottom, reasoning_effort,
                               firstSeen, lastEvent>>
           ELSE SessionUnchanged
    [] OTHER -> SessionUnchanged

\* ============================================================ transport steps

\* a line on the worker's stdout: a response (id, error), a notification (its
\* ordinal among the notifications, its line number, its content) or junk
Line(type, id, error, seq, at, notif) ==
  [type |-> type, id |-> id, error |-> error, seq |-> seq, at |-> at,
   notif |-> notif]
NoNotif == Notif("none", JsonNull)

Ret(kind, for, id) == [kind |-> kind, for |-> for, id |-> id]
NoResult == Ret("none", 0, 0)

\* a thread reaches `client.lock()`; background threads are spawned by the
\* main loop, so after the initialize call and only while the UI thread is
\* not itself inside a call
CallEnter(c) ==
  /\ pc[c] = "idle"
  /\ c # "ui" => (pc["ui"] = "idle" /\ issued # <<>>)
  /\ Len(issued) + Cardinality({d \in Callers : pc[d] = "lock"}) < MaxCalls
  /\ pc' = [pc EXCEPT ![c] = "lock"]
  /\ UNCHANGED <<next_id, lockOwner, pending, callId, chan, result, stdinFrames,
                 stdoutPipe, workerAlive, readerDone, notifyChan, issued,
                 linesEmitted, notifEmitted, applied, dropped>>
  /\ UNCHANGED <<sessionVars, editVars, uiVars>>

\* the lock is granted and call() takes its id (backend.rs:146)
CallStart(c) ==
  /\ pc[c] = "lock"
  /\ ClientLockFree(lockOwner)
  /\ Len(issued) < MaxCalls
  /\ lockOwner' = c
  /\ callId' = [callId EXCEPT ![c] = next_id]
  /\ next_id' = FetchAdd(next_id)
  /\ issued' = Append(issued, next_id)
  /\ pc' = [pc EXCEPT ![c] = "write"]
  /\ UNCHANGED <<pending, chan, result, stdinFrames, stdoutPipe, workerAlive,
                 readerDone, notifyChan, linesEmitted, notifEmitted, applied, dropped>>
  /\ UNCHANGED <<sessionVars, editVars, uiVars>>

\* write_all + flush succeed (backend.rs:155-156)
CallWrite(c) ==
  /\ pc[c] = "write"
  /\ workerAlive
  /\ stdinFrames' = Append(stdinFrames, callId[c])
  /\ pc' = [pc EXCEPT ![c] = "insert"]
  /\ UNCHANGED <<next_id, lockOwner, pending, callId, chan, result, stdoutPipe,
                 workerAlive, readerDone, notifyChan, issued, linesEmitted,
                 notifEmitted, applied, dropped>>
  /\ UNCHANGED <<sessionVars, editVars, uiVars>>

\* write_all or flush fails on the closed pipe: `?` returns the error
CallWriteFail(c) ==
  /\ pc[c] = "write"
  /\ ~workerAlive
  /\ result' = [result EXCEPT ![c] = Ret("io_error", callId[c], 0)]
  /\ pc' = [pc EXCEPT ![c] = "idle"]
  /\ lockOwner' = IF lockOwner = c THEN "none" ELSE lockOwner
  /\ UNCHANGED <<next_id, pending, callId, chan, stdinFrames, stdoutPipe,
                 workerAlive, readerDone, notifyChan, issued, linesEmitted,
                 notifEmitted, applied, dropped>>
  /\ UNCHANGED <<sessionVars, editVars, uiVars>>

\* the channel is created and its Sender stored (backend.rs:158-159)
CallInsert(c) ==
  /\ pc[c] = "insert"
  /\ chan' = [chan EXCEPT ![c] = <<>>]
  /\ pending' = MapWith(pending, callId[c], c)
  /\ pc' = [pc EXCEPT ![c] = "recv"]
  /\ UNCHANGED <<next_id, lockOwner, callId, result, stdinFrames, stdoutPipe,
                 workerAlive, readerDone, notifyChan, issued, linesEmitted,
                 notifEmitted, applied, dropped>>
  /\ UNCHANGED <<sessionVars, editVars, uiVars>>

\* rx.recv() returns and call() returns (backend.rs:160-165)
CallRecv(c) ==
  /\ pc[c] = "recv"
  /\ RecvReady(c)
  /\ IF chan[c] # <<>>
       THEN /\ result' = [result EXCEPT ![c] =
                 Ret(IF Head(chan[c]).error THEN "error" ELSE "ok",
                     callId[c], Head(chan[c]).id)]
            /\ chan' = [chan EXCEPT ![c] = Tail(@)]
       ELSE /\ result' = [result EXCEPT ![c] = Ret("closed", callId[c], 0)]
            /\ chan' = chan
  /\ pc' = [pc EXCEPT ![c] = "idle"]
  /\ lockOwner' = IF lockOwner = c THEN "none" ELSE lockOwner
  /\ UNCHANGED <<next_id, pending, callId, stdinFrames, stdoutPipe, workerAlive,
                 readerDone, notifyChan, issued, linesEmitted, notifEmitted,
                 applied, dropped>>
  /\ UNCHANGED <<sessionVars, editVars, uiVars>>

\* ---- the worker process (external): what it may write on its stdout
WorkerEmit(line) ==
  /\ workerAlive
  /\ linesEmitted < MaxLines
  /\ stdoutPipe' = Append(stdoutPipe, line)
  /\ linesEmitted' = linesEmitted + 1

\* a response to any request it has read, in any order, possibly repeated
WorkerRespond ==
  /\ \E i \in 1..Len(stdinFrames), err \in BOOLEAN :
       WorkerEmit(Line("resp", stdinFrames[i], err, 0, 0, NoNotif))
  /\ UNCHANGED <<next_id, lockOwner, pending, pc, callId, chan, result,
                 stdinFrames, workerAlive, readerDone, notifyChan, issued,
                 notifEmitted, applied, dropped>>
  /\ UNCHANGED <<sessionVars, editVars, uiVars>>

\* a worker that follows the protocol: one response to each request, in the
\* order it read them
WorkerReply ==
  /\ linesEmitted < Len(stdinFrames)
  /\ \E err \in BOOLEAN :
       WorkerEmit(Line("resp", stdinFrames[linesEmitted + 1], err, 0, 0, NoNotif))
  /\ UNCHANGED <<next_id, lockOwner, pending, pc, callId, chan, result,
                 stdinFrames, workerAlive, readerDone, notifyChan, issued,
                 notifEmitted, applied, dropped>>
  /\ UNCHANGED <<sessionVars, editVars, uiVars>>

WorkerNotify ==
  /\ \E n \in WorkerNotifs :
       WorkerEmit(Line("notif", 0, FALSE, notifEmitted + 1, linesEmitted + 1, n))
  /\ notifEmitted' = notifEmitted + 1
  /\ UNCHANGED <<next_id, lockOwner, pending, pc, callId, chan, result,
                 stdinFrames, workerAlive, readerDone, notifyChan, issued,
                 applied, dropped>>
  /\ UNCHANGED <<sessionVars, editVars, uiVars>>

\* a blank line or a line that is not JSON
WorkerJunk ==
  /\ WorkerEmit(Line("junk", 0, FALSE, 0, 0, NoNotif))
  /\ UNCHANGED <<next_id, lockOwner, pending, pc, callId, chan, result,
                 stdinFrames, workerAlive, readerDone, notifyChan, issued,
                 notifEmitted, applied, dropped>>
  /\ UNCHANGED <<sessionVars, editVars, uiVars>>

\* the worker exits: its ends of both pipes close
WorkerExit ==
  /\ workerAlive
  /\ workerAlive' = FALSE
  /\ UNCHANGED <<next_id, lockOwner, pending, pc, callId, chan, result,
                 stdinFrames, stdoutPipe, readerDone, notifyChan, issued,
                 linesEmitted, notifEmitted, applied, dropped>>
  /\ UNCHANGED <<sessionVars, editVars, uiVars>>

\* ---- the reader thread (backend.rs:117-143)
\* a call has written the request with this id but not yet stored its Sender
InFlightUnregistered(id) ==
  \E c \in Callers : callId[c] = id /\ pc[c] = "insert"

ReaderLine ==
  /\ ~readerDone
  /\ stdoutPipe # <<>>
  /\ LET line == Head(stdoutPipe)
         taken == PendingRemove(pending, line.id)
     IN
     /\ stdoutPipe' = Tail(stdoutPipe)
     /\ CASE line.type = "resp" ->
               /\ pending' = MapWithout(pending, taken)
               /\ chan' = [c \in Callers |->
                            IF \E k \in taken : pending[k] = c
                              THEN Append(chan[c], [id |-> line.id, error |-> line.error])
                              ELSE chan[c]]
               /\ dropped' = IF taken = {}
                               THEN dropped \cup {[id |-> line.id,
                                                   early |-> InFlightUnregistered(line.id),
                                                   other |-> DOMAIN pending]}
                               ELSE dropped
               /\ UNCHANGED notifyChan
          [] line.type = "notif" ->
               /\ notifyChan' = NotifySend(notifyChan, [seq |-> line.seq, at |-> line.at, notif |-> line.notif])
               /\ UNCHANGED <<pending, chan, dropped>>
          [] OTHER ->
               UNCHANGED <<pending, chan, dropped, notifyChan>>
  /\ UNCHANGED <<next_id, lockOwner, pc, callId, result, stdinFrames,
                 workerAlive, readerDone, issued, linesEmitted, notifEmitted,
                 applied>>
  /\ UNCHANGED <<sessionVars, editVars, uiVars>>

\* reader.lines() ends: the stream is closed and drained
ReaderEOF ==
  /\ ~readerDone
  /\ stdoutPipe = <<>>
  /\ ~workerAlive
  /\ readerDone' = TRUE
  /\ UNCHANGED <<next_id, lockOwner, pending, pc, callId, chan, result,
                 stdinFrames, stdoutPipe, workerAlive, notifyChan, issued,
                 linesEmitted, notifEmitted, applied, dropped>>
  /\ UNCHANGED <<sessionVars, editVars, uiVars>>

\* ---- the main loop: one round of `while let Ok(notif) = notify_rx.try_recv()`
ApplyNotification ==
  /\ pc["ui"] = "idle"
  /\ notifyChan # <<>>
  /\ HandleNotification(Head(notifyChan).notif)
  /\ applied' = Append(applied, [seq |-> Head(notifyChan).seq, at |-> Head(notifyChan).at])
  /\ notifyChan' = Tail(notifyChan)
  /\ UNCHANGED <<next_id, lockOwner, pending, pc, callId, chan, result,
                 stdinFrames, stdoutPipe, workerAlive, readerDone, issued,
                 linesEmitted, notifEmitted, dropped>>
  /\ UNCHANGED <<editVars, uiVars>>

\* ============================================================ editable buffer
\* App.input is a String: the model keeps its UTF-8 bytes, a byte being
\* <<code point, index of the byte inside the code point>>.

PASTE_START == "S"
PASTE_END == "E"
IMAGE_MARKER == "I"
Sentinels == {PASTE_START, PASTE_END, IMAGE_MARKER}

\* char::len_utf8
LenUtf8(ch) ==
  CASE ch = "a" -> 1
    [] ch = " " -> 1
    [] ch \in {"/", "@", "h", "m", "x"} -> 1
    [] ch = "c2" -> 2
    [] ch = "c3" -> 3
    [] ch = "c4" -> 4
    [] ch \in Sentinels -> 3

\* the characters typed here: an ASCII letter and a 3-byte code point; '@' and
\* '/' (which open overlays) are not among them
TypedChars == {"a", "c3"}
\* one code point of each UTF-8 width
WideChars == {"a", "c2", "c3", "c4"}
PasteTexts == {<<"a">>, <<"c3", "a">>}
ImageData == {"png1", "png2"}

Utf8(ch) == [k \in 1..LenUtf8(ch) |-> <<ch, k - 1>>]

RECURSIVE Encode(_)
Encode(chars) ==
  IF chars = <<>> THEN <<>> ELSE Utf8(Head(chars)) \o Encode(Tail(chars))

\* the characters of a buffer of bytes
Decode(bytes) ==
  LET firsts == SelectSeq(bytes, LAMBDA b : b[2] = 0) IN
  [i \in 1..Len(firsts) |-> firsts[i][1]]

\* &value[from..to] with byte offsets
Slice(value, from, to) == SubSeq(value, from + 1, to)
\* String::insert_str
InsertStr(value, at, bytes) ==
  Slice(value, 0, at) \o bytes \o Slice(value, at, Len(value))

\* str::is_char_boundary
IsCharBoundary(value, idx) ==
  \/ idx = 0
  \/ idx = Len(value)
  \/ (idx < Len(value) /\ value[idx + 1][2] = 0)

Min(a, b) == IF a < b THEN a ELSE b

\* input.rs clamp_cursor
ClampCursor(value, cur) ==
  LET m == Min(cur, Len(value)) IN
  CHOOSE i \in 0..m :
    IsCharBoundary(value, i) /\ \A j \in (i+1)..m : ~IsCharBoundary(value, j)

None == -1

\* input.rs prev_char_start (None when the clamped cursor is 0)
PrevCharStart(value, cur) ==
  LET c == ClampCursor(value, cur) IN
  IF c = 0 THEN None
  ELSE CHOOSE i \in 0..(c-1) :
         value[i + 1][2] = 0 /\ \A j \in (i+1)..(c-1) : value[j + 1][2] # 0

\* input.rs char_at ("" when there is none)
CharAt(value, cur) ==
  LET c == ClampCursor(value, cur) IN
  IF c >= Len(value) THEN "" ELSE value[c + 1][1]

\* value[..upto].rfind(ch): byte offset of the last occurrence, or None
RFind(value, upto, ch) ==
  LET hits == {i \in 0..(upto - 1) : value[i + 1] = <<ch, 0>>} IN
  IF hits = {} THEN None ELSE CHOOSE i \in hits : \A j \in hits : j <= i

\* value[from..].find(ch): byte offset (from the start of value), or None
Find(value, from, ch) ==
  LET hits == {i \in from..(Len(value) - 1) : value[i + 1] = <<ch, 0>>} IN
  IF hits = {} THEN None ELSE CHOOSE i \in hits : \A j \in hits : i <= j

\* input.rs cursor_left
CursorLeft(value, cur) ==
  LET c == ClampCursor(value, cur)
      prev == PrevCharStart(value, c)
  IN IF prev = None THEN 0
     ELSE IF value[prev + 1][1] = PASTE_END /\ RFind(value, prev, PASTE_START) # None
            THEN RFind(value, prev, PASTE_START)
            ELSE prev

\* input.rs cursor_right
CursorRight(value, cur) ==
  LET c == ClampCursor(value, cur)
      ch == CharAt(value, c)
      start_next == c + LenUtf8(PASTE_START)
  IN IF ch = "" THEN Len(value)
     ELSE IF ch = PASTE_START /\ Find(value, start_next, PASTE_END) # None
            THEN Find(value, start_next, PASTE_END) + LenUtf8(PASTE_END)
            ELSE c + LenUtf8(ch)

Some(v, c) == [some |-> TRUE, value |-> v, cursor |-> c]
Nothing == [some |-> FALSE, value |-> <<>>, cursor |-> 0]

\* input.rs handle_backspace
HandleBackspace_oneByte(value, cur) ==
  LET c == ClampCursor(value, cur) IN
  IF c = 0 THEN Nothing
  ELSE Some(Slice(value, 0, c - 1) \o Slice(value, c, Len(value)), c - 1)
HandleBackspace_oneChar(value, cur) ==
  LET c == ClampCursor(value, cur)
      prev == PrevCharStart(value, c)
  IN IF prev = None THEN Nothing
     ELSE Some(Slice(value, 0, prev) \o Slice(value, c, Len(value)), prev)
HandleBackspace(value, cur) ==
  LET c == ClampCursor(value, cur)
      prev == PrevCharStart(value, c)
  IN IF prev = None THEN Nothing
     ELSE IF value[prev + 1][1] = PASTE_END /\ RFind(value, prev, PASTE_START) # None
            THEN LET start == RFind(value, prev, PASTE_START) IN
                 Some(Slice(value, 0, start) \o Slice(value, c, Len(value)), start)
            ELSE Some(Slice(value, 0, prev) \o Slice(value, c, Len(value)), prev)

\* chars().filter(|&c| c == IMAGE_MARKER).count()
ImageCount(value) ==
  Cardinality({i \in 1..Len(value) : value[i] = <<IMAGE_MARKER, 0>>})

\* saturating_sub
SatSub(a, b) == IF a > b THEN a - b ELSE 0

\* Vec::pop, n times, on a possibly shorter vector
PopN(v, n) == SubSeq(v, 1, SatSub(Len(v), n))

\* Vec::push of the new attachment
AttachAt(atts, value, cur, data) == Append(atts, data)

\* history: drop the entries of the image sentinels lying in value[from..to]
DropMarkers(md, value, from, to) ==
  LET k == ImageCount(Slice(value, 0, from))
      n == ImageCount(Slice(value, from, to))
  IN SubSeq(md, 1, k) \o SubSeq(md, k + n + 1, Len(md))

\* the bytes that Backspace takes out of the buffer
Removed(value, cur) ==
  LET c == ClampCursor(value, cur)
      r == HandleBackspace(value, c)
  IN IF r.some THEN Slice(value, r.cursor, c) ELSE <<>>

Op(name, after, v, c, adj) ==
  [op |-> name, after |-> after, input |-> v, cursor |-> c, adjacent |-> adj]
NoOp == Op("none", "none", <<>>, 0, FALSE)

\* ------------------------------------------------------------ editing events
\* handle_key starts by clamping the cursor (input.rs:120); the keys below are
\* the Normal-mode arms, where handle_overlay_keys returns false.

EditFrame == UNCHANGED <<transportVars, state, mode, history_needs_refresh,
                         timeline_revision, reindex_inflight, show_splash,
                         auto_scroll, scroll_from_bottom, reasoning_effort,
                         firstSeen, lastEvent, uiVars>>

\* KeyCode::Char(ch) without CONTROL/ALT (input.rs:349-361)
KeyChar(ch) ==
  /\ mode = "Normal"
  /\ ch = "/" => input # <<>>
  /\ ch = "@" => InsertStr(input, ClampCursor(input, cursor), Utf8(ch))[1][1] = "/"
  /\ Len(input) + LenUtf8(ch) <= MaxInputBytes
  /\ LET c == ClampCursor(input, cursor) IN
     /\ input' = InsertStr(input, c, Utf8(ch))
     /\ cursor' = c + LenUtf8(ch)
  /\ dirty' = TRUE
  /\ lastOp' = Op("other", "other", <<>>, 0, FALSE)
  /\ UNCHANGED <<attachments, markerData, toast>>
  /\ EditFrame

\* KeyCode::Backspace (input.rs:301-316)
KeyBackspace ==
  /\ mode = "Normal"
  /\ LET c == ClampCursor(input, cursor)
         r == HandleBackspace(input, c)
         removed_images == SatSub(ImageCount(input), ImageCount(r.value))
     IN
     IF r.some
       THEN /\ input' = r.value
            /\ cursor' = r.cursor
            /\ attachments' = IF removed_images > 0 /\ attachments # <<>>
                                THEN PopN(attachments, removed_images)
                                ELSE attachments
            /\ markerData' = DropMarkers(markerData, input, r.cursor, c)
            /\ dirty' = TRUE
       ELSE /\ cursor' = c
            /\ UNCHANGED <<input, attachments, markerData, dirty>>
  /\ lastOp' = IF lastOp.op = "paste"
                 THEN Op("backspace", "paste", lastOp.input, lastOp.cursor, lastOp.adjacent)
                 ELSE Op("backspace", "other", Removed(input, cursor), 0, FALSE)
  /\ UNCHANGED toast
  /\ EditFrame

\* KeyCode::Left (input.rs:317-322)
KeyLeft ==
  /\ mode = "Normal"
  /\ LET c == ClampCursor(input, cursor) IN
     IF c > 0
       THEN cursor' = CursorLeft(input, c) /\ dirty' = TRUE
       ELSE cursor' = c /\ dirty' = dirty
  /\ lastOp' = Op("other", "other", <<>>, 0, FALSE)
  /\ UNCHANGED <<input, attachments, markerData, toast>>
  /\ EditFrame

\* KeyCode::Right (input.rs:323-328)
KeyRight ==
  /\ mode = "Normal"
  /\ LET c == ClampCursor(input, cursor) IN
     IF c < Len(input)
       THEN cursor' = CursorRight(input, c) /\ dirty' = TRUE
       ELSE cursor' = c /\ dirty' = dirty
  /\ lastOp' = Op("other", "other", <<>>, 0, FALSE)
  /\ UNCHANGED <<input, attachments, markerData, toast>>
  /\ EditFrame

\* Ctrl+V with an image on the clipboard (input.rs:329-337)
KeyCtrlV(data) ==
  /\ mode = "Normal"
  /\ Len(input) + LenUtf8(IMAGE_MARKER) <= MaxInputBytes
  /\ LET c == ClampCursor(input, cursor)
         k == ImageCount(Slice(input, 0, c))
     IN
     /\ input' = InsertStr(input, c, Utf8(IMAGE_MARKER))
     /\ cursor' = c + LenUtf8(IMAGE_MARKER)
     /\ attachments' = AttachAt(attachments, input, c, data)
     /\ markerData' = SubSeq(markerData, 1, k) \o <<data>>
                        \o SubSeq(markerData, k + 1, Len(markerData))
  /\ toast' = "Image attached"
  /\ dirty' = TRUE
  /\ lastOp' = Op("other", "other", <<>>, 0, FALSE)
  /\ EditFrame

\* Ctrl+V when read_clipboard_image yields no image (input.rs:338-346)
KeyCtrlVNoImage(outcome) ==
  /\ mode = "Normal"
  /\ cursor' = ClampCursor(input, cursor)
  /\ CASE outcome = "TooLarge" ->
            toast' = "Image too large (max 50MB)" /\ dirty' = TRUE
       [] outcome = "ConversionError" ->
            toast' = "Failed to process clipboard image" /\ dirty' = TRUE
       [] OTHER -> UNCHANGED <<toast, dirty>>
  /\ lastOp' = Op("other", "other", <<>>, 0, FALSE)
  /\ UNCHANGED <<input, attachments, markerData>>
  /\ EditFrame

\* constants.rs; the thresholds are read by the display only (ui.rs:929-930)
PASTE_LINE_THRESHOLD == 3
PASTE_CHAR_THRESHOLD == 150

\* paste_text.lines().count().max(1) on text without a line feed
LineCount(text) == 1

\* is_large (ui.rs:930)
IsLarge(text) ==
  LineCount(text) >= PASTE_LINE_THRESHOLD \/ Len(Encode(text)) >= PASTE_CHAR_THRESHOLD

\* Event::Paste(text) (input.rs:90-115), on a buffer of at most `bound` bytes
HandlePasteWithin(text, bound) ==
  /\ mode = "Normal"
  /\ text # <<>>
  /\ LET c == ClampCursor(input, cursor)
         bytes == Encode(text)
         insertion == Encode(<<PASTE_START>> \o text \o <<PASTE_END>>)
         p == PrevCharStart(input, c)
         prev == IF p = None THEN "" ELSE input[p + 1][1]
         next == CharAt(input, c)
     IN
     /\ IF prev = PASTE_END
          THEN LET before_end == SatSub(c, LenUtf8(PASTE_END)) IN
               /\ input' = InsertStr(input, before_end, bytes)
               /\ cursor' = before_end + Len(bytes) + LenUtf8(PASTE_END)
          ELSE IF next = PASTE_START
            THEN LET insert_at == c + LenUtf8(PASTE_START) IN
                 /\ input' = InsertStr(input, insert_at, bytes)
                 /\ cursor' = insert_at + Len(bytes)
            ELSE /\ input' = InsertStr(input, c, insertion)
                 /\ cursor' = c + Len(insertion)
     /\ Len(input') <= bound
     /\ lastOp' = Op("paste", "other", input, cursor,
                     prev = PASTE_END \/ next = PASTE_START)
  /\ dirty' = TRUE
  /\ UNCHANGED <<attachments, markerData, toast>>
  /\ EditFrame

HandlePaste(text) == HandlePasteWithin(text, MaxInputBytes)

\* =============================================================== dispatcher
\* App::handle_notification on any notification the worker can send
Dispatch ==
  /\ timeline_revision < MaxRevision
  /\ \E n \in NotifInputs :
       /\ HandleNotification(n)
       /\ lastNotif' = Tag(n)
  /\ UNCHANGED <<transportVars, editVars, renderVars, threadVars, overlayVars,
                 lastEsc, extraVars>>

\* ============================================================ the main loop
\* a remote call as a thread makes it: method, the argument the claims read,
\* the message it carries, and what the caller does once call() has returned
Job(method, arg, content, atts, then) ==
  [method |-> method, arg |-> arg, content |-> content, attachments |-> atts,
   answers |-> <<>>, then |-> then]
NoJob == Job("none", "none", <<>>, <<>>, "none")
Call(method, arg, then) == Job(method, arg, <<>>, <<>>, then)

\* the slot a spawned closure runs in: the client's mutex lets one call
\* proceed at a time, so a closure that has not started stands for every
\* closure waiting at client.lock()
BgThreads == {"bg1"}
UiThreads == {"ui"} \cup BgThreads

\* room for one more call within the bound on calls
CanCall ==
  Len(issued) + Cardinality({d \in Callers : pc[d] = "lock"}) + Len(spawned)
    < MaxCalls

\* run_interactive: the UI thread is at the top of its loop, inside no call
UiIdle == pc["ui"] = "idle" /\ calling["ui"] = NoJob /\ ~should_quit

\* the notifications the worker writes in the main-loop specifications
LoopNotifs ==
  {Notif("state", JsonState(s)) : s \in StatePayloads}
    \cup {Notif("timeline_event", JsonEvent(Ev("e1", "v2"))),
          Notif("tokens_update", JsonObj([k \in TokenKeys |-> "n7"])),
          Notif("plan_exit_proposed", JsonBool(TRUE)),
          Notif("ping", JsonNull)}

\* the notifications the worker writes in the key-handling specification
UiNotifs ==
  { Notif("state", JsonState(MkState(<<>>, FALSE, "build", "s1"))),
    Notif("state", JsonState(MkState(<<Ev("e2", "v1"), Ev("e1", "v1")>>, TRUE,
                                     "plan", "s1"))),
    Notif("plan_exit_proposed", JsonBool(TRUE)) }

\* SPINNER_FRAMES.len()
SpinnerFrames == 4

\* the terminal sizes a frame is drawn at
Widths == {40, 80}
Heights == {1}

Max(a, b) == IF a > b THEN a ELSE b

\* ui.rs build_timeline_lines: one entry per timeline event, laid out at the
\* content width, and the spinner line while the session is loading
BuildTimelineLines(st, compact, width, spinner) ==
  LET content_width == Max(SatSub(width, 2), 10)
      body == [i \in 1..Len(st.timeline_events) |->
                 [event |-> st.timeline_events[i], compact |-> compact,
                  width |-> content_width, frame |-> 0]]
  IN IF st.is_loading
       THEN Append(body, [event |-> NoEvent, compact |-> compact,
                          width |-> content_width,
                          frame |-> spinner % SpinnerFrames])
       ELSE body

\* the three key components of the cache agree with the call (ui.rs:137-139)
CacheHit_never(crev, cwidth, ccompact, rev, width, compact) == FALSE
CacheHit(crev, cwidth, ccompact, rev, width, compact) ==
  crev = rev /\ cwidth = width /\ ccompact = compact

\* ui.rs build_timeline_lines_cached: the lines returned, whether the
\* formatter ran, and the cache it leaves
BuildTimelineLinesCached(width) ==
  LET fresh == BuildTimelineLines(state, compact_view, width, spinner_index')
      kept == [cache |-> timeline_cache, rev |-> timeline_cache_rev,
               width |-> timeline_cache_width,
               compact |-> timeline_cache_compact]
  IN
  IF state.is_loading
    THEN [lines |-> fresh, formatted |-> TRUE, after |-> kept]
  ELSE IF CacheHit(timeline_cache_rev, timeline_cache_width,
                   timeline_cache_compact, timeline_revision, width, compact_view)
    THEN [lines |-> timeline_cache, formatted |-> FALSE, after |-> kept]
  ELSE [lines |-> fresh, formatted |-> TRUE,
        after |-> [cache |-> fresh, rev |-> timeline_revision,
                   width |-> width, compact |-> compact_view]]

Rendered(called, width, compact, loading, formatted, lines, stale) ==
  [called |-> called, width |-> width, compact |-> compact,
   loading |-> loading, formatted |-> formatted, lines |-> lines,
   stale |-> stale]
NoRender == Rendered(FALSE, 0, FALSE, FALSE, FALSE, <<>>, FALSE)

\* one frame: main.rs:159-172 with render_ui's timeline (ui.rs:76-82)
RenderFrame(width, height) ==
  /\ UiIdle
  /\ spinner_index' = IF state.is_loading
                        THEN (spinner_index + 1) % SpinnerFrames
                        ELSE spinner_index
  /\ LET r == BuildTimelineLinesCached(width) IN
       /\ timeline_cache' = r.after.cache
       /\ timeline_cache_rev' = r.after.rev
       /\ timeline_cache_width' = r.after.width
       /\ timeline_cache_compact' = r.after.compact
       /\ scroll_from_bottom' = Min(scroll_from_bottom,
                                    SatSub(Len(r.lines), height))
       /\ lastRender' = Rendered(TRUE, width, compact_view, state.is_loading,
                                 r.formatted, r.lines, FALSE)
  /\ dirty' = FALSE
  /\ UNCHANGED <<state, mode, history_needs_refresh, timeline_revision, toast,
                 reindex_inflight, show_splash, auto_scroll, reasoning_effort,
                 firstSeen, lastEvent, compact_view>>
  /\ UNCHANGED <<transportVars, editVars, threadVars, overlayVars, lastEsc, lastNotif, extraVars>>

\* the loop drains notify_rx into handle_notification (main.rs:174-176)
DrainNotify(n) ==
  /\ UiIdle
  /\ timeline_revision < MaxRevision
  /\ HandleNotification(n)
  /\ lastRender' = [lastRender EXCEPT !.stale =
                      @ \/ state' # state \/ timeline_revision' # timeline_revision]
  /\ UNCHANGED <<compact_view, spinner_index, timeline_cache_rev,
                 timeline_cache_width, timeline_cache_compact, timeline_cache>>
  /\ UNCHANGED <<transportVars, editVars, threadVars, overlayVars, lastEsc, lastNotif, extraVars>>


\* ------------------------------------------------------------------ strings
\* a &str as the sequence of its characters
IsWhitespace(ch) == ch = " "

\* char::to_lowercase on the letters that occur here
LowerChar(ch) ==
  CASE ch = "A" -> "a" [] ch = "B" -> "b" [] ch = "C" -> "c" [] ch = "E" -> "e"
    [] ch = "G" -> "g" [] ch = "H" -> "h" [] ch = "I" -> "i" [] ch = "O" -> "o"
    [] ch = "R" -> "r" [] ch = "S" -> "s" [] ch = "V" -> "v" [] OTHER -> ch
ToLowercase(str) == [i \in 1..Len(str) |-> LowerChar(str[i])]

RECURSIVE TrimStart(_)
TrimStart(str) ==
  IF str # <<>> /\ IsWhitespace(Head(str)) THEN TrimStart(Tail(str)) ELSE str
RECURSIVE TrimEnd(_)
TrimEnd(str) ==
  IF str # <<>> /\ IsWhitespace(str[Len(str)])
    THEN TrimEnd(SubSeq(str, 1, Len(str) - 1)) ELSE str
Trim(str) == TrimEnd(TrimStart(str))

\* the characters of the strings that are compared, in the order of their
\* code points
CodePointOrder ==
  <<" ", "1", "2", "3", "4", "5", "6", "A", "B", "G", "I", "O",
    "a", "b", "c", "e", "g", "h", "i", "l", "n", "o", "p", "r", "t">>
Ord(ch) == CHOOSE i \in 1..Len(CodePointOrder) : CodePointOrder[i] = ch

\* str::cmp: Less, Equal or Greater as -1, 0, 1
RECURSIVE StrCmp(_, _)
StrCmp(a, b) ==
  IF a = <<>> THEN (IF b = <<>> THEN 0 ELSE -1)
  ELSE IF b = <<>> THEN 1
  ELSE IF Ord(Head(a)) < Ord(Head(b)) THEN -1
  ELSE IF Ord(Head(a)) > Ord(Head(b)) THEN 1
  ELSE StrCmp(Tail(a), Tail(b))

StartsWith(str, pat) == Len(pat) <= Len(str) /\ SubSeq(str, 1, Len(pat)) = pat
Contains(str, pat) ==
  \E i \in 0..(Len(str) - Len(pat)) : SubSeq(str, i + 1, i + Len(pat)) = pat

\* --------------------------------------------------------------- commands
\* app.rs CommandItem; shortcut is an Option
CommandItem(name, has_shortcut, shortcut, description, action) ==
  [name |-> name, has_shortcut |-> has_shortcut, shortcut |-> shortcut,
   description |-> description, action |-> action]

\* commands.rs commands_list
commands_list ==
  << CommandItem(<<"n","e","w">>, TRUE, <<"n">>,
       <<"S","t","a","r","t"," ","a"," ","n","e","w"," ","s","e","s","s","i","o","n">>,
       "session:new"),
     CommandItem(<<"c","l","e","a","r">>, TRUE, <<"c">>,
       <<"C","l","e","a","r"," ","c","u","r","r","e","n","t"," ","c","o","n","v","e","r","s","a","t","i","o","n">>,
       "session:clear"),
     CommandItem(<<"h","i","s","t","o","r","y">>, TRUE, <<"h">>,
       <<"V","i","e","w"," ","s","e","s","s","i","o","n"," ","h","i","s","t","o","r","y">>,
       "session:history"),
     CommandItem(<<"p","l","a","n">>, TRUE, <<"p">>,
       <<"E","n","t","e","r"," ","p","l","a","n"," ","m","o","d","e">>,
       "mode:plan"),
     CommandItem(<<"b","u","i","l","d">>, TRUE, <<"b">>,
       <<"E","x","i","t"," ","p","l","a","n"," ","m","o","d","e"," ","a","n","d"," ","s","t","a","r","t"," ","b","u","i","l","d","i","n","g">>,
       "mode:build"),
     CommandItem(<<"r","e","i","n","d","e","x">>, FALSE, <<>>,
       <<"R","e","i","n","d","e","x"," ","c","o","d","e","b","a","s","e"," ","f","o","r"," ","s","e","a","r","c","h">>,
       "tool:reindex"),
     CommandItem(<<"t","o","d","o","s">>, TRUE, <<"t">>,
       <<"S","h","o","w"," ","t","o","d","o"," ","l","i","s","t">>,
       "tool:todos"),
     CommandItem(<<"r","e","v","e","r","t">>, TRUE, <<"r">>,
       <<"R","e","v","e","r","t"," ","f","i","l","e","s"," ","t","o"," ","p","r","e","v","i","o","u","s"," ","s","t","a","t","e">>,
       "tool:revert"),
     CommandItem(<<"m","o","d","e","l","s">>, TRUE, <<"m">>,
       <<"C","h","a","n","g","e"," ","A","I"," ","m","o","d","e","l">>,
       "settings:model"),
     CommandItem(<<"a","b","o","u","t">>, FALSE, <<>>,
       <<"A","b","o","u","t"," ","S","t","r","a","t","u","s","C","o","d","e">>,
       "help:about") >>

\* commands.rs filter_commands
FilterCommands(commands, query) ==
  IF Trim(query) = <<>>
    THEN commands
    ELSE LET q == ToLowercase(Trim(query)) IN
         SelectSeq(commands,
           LAMBDA c : \/ StartsWith(c.name, q)
                      \/ Contains(ToLowercase(c.description), q)
                      \/ (c.has_shortcut /\ StartsWith(c.shortcut, q)))

\* ----------------------------------------------------------------- models
\* app.rs ModelEntry; provider_key is an Option
ModelEntry(id, name, group, has_provider_key, provider_key) ==
  [id |-> id, name |-> name, group |-> group,
   has_provider_key |-> has_provider_key, provider_key |-> provider_key]

openai == <<"o","p","e","n","a","i">>
OpenAI == <<"O","p","e","n","A","I">>
anthropic == <<"a","n","t","h","r","o","p","i","c">>
Google == <<"G","o","o","g","l","e">>

\* the entries a list_models reply is made of
ModelPool ==
  { ModelEntry(<<"1">>, <<"b">>, openai, TRUE, openai),
    ModelEntry(<<"2">>, <<"b">>, OpenAI, FALSE, <<>>),
    ModelEntry(<<"3">>, <<"a">>, anthropic, TRUE, anthropic),
    ModelEntry(<<"4">>, <<"B">>, Google, FALSE, <<>>),
    ModelEntry(<<"5">>, <<"a">>, openai, FALSE, <<>>) }

\* a reply lists a model once
ModelLists ==
  UNION { {l \in [1..n -> ModelPool] : \A i, j \in 1..n : l[i] = l[j] => i = j} :
            n \in 0..MaxModels }

\* commands.rs filter_models
FilterModels(entries, query) ==
  LET q == ToLowercase(Trim(query)) IN
  IF q = <<>>
    THEN entries
    ELSE SelectSeq(entries,
           LAMBDA e : \/ Contains(ToLowercase(e.name), q)
                      \/ Contains(ToLowercase(e.id), q)
                      \/ Contains(ToLowercase(e.group), q)
                      \/ (e.has_provider_key /\ Contains(ToLowercase(e.provider_key), q)))

\* the comparator of ordered_groups.sort_by (commands.rs:214-224)
GroupCmp_lexical(a, b) == StrCmp(a, b)
GroupCmp(a, b) ==
  LET a_is_openai == ToLowercase(a) = openai
      b_is_openai == ToLowercase(b) = openai
  IN IF a_is_openai /\ ~b_is_openai THEN -1
     ELSE IF ~a_is_openai /\ b_is_openai THEN 1
     ELSE StrCmp(a, b)

\* slice::sort_by is stable: an element goes after every element that does
\* not compare greater than it
RECURSIVE InsertGroup(_, _)
InsertGroup(sorted, g) ==
  IF sorted = <<>> THEN <<g>>
  ELSE IF GroupCmp(g, Head(sorted)) < 0 THEN <<g>> \o sorted
  ELSE <<Head(sorted)>> \o InsertGroup(Tail(sorted), g)

RECURSIVE SortGroups(_)
SortGroups(gs) ==
  IF gs = <<>> THEN <<>>
  ELSE InsertGroup(SortGroups(SubSeq(gs, 1, Len(gs) - 1)), gs[Len(gs)])

RECURSIVE InsertByName(_, _)
InsertByName(sorted, e) ==
  IF sorted = <<>> THEN <<e>>
  ELSE IF StrCmp(e.name, Head(sorted).name) < 0 THEN <<e>> \o sorted
  ELSE <<Head(sorted)>> \o InsertByName(Tail(sorted), e)

RECURSIVE SortByName(_)
SortByName(items) ==
  IF items = <<>> THEN <<>>
  ELSE InsertByName(SortByName(SubSeq(items, 1, Len(items) - 1)), items[Len(items)])

\* the keys of a BTreeMap, in ascending order
RECURSIVE KeysAscending(_)
KeysAscending(keys) ==
  IF keys = {} THEN <<>>
  ELSE LET least == CHOOSE k \in keys : \A j \in keys : StrCmp(k, j) <= 0 IN
       <<least>> \o KeysAscending(keys \ {least})

RECURSIVE Flatten(_)
Flatten(lists) ==
  IF lists = <<>> THEN <<>> ELSE Head(lists) \o Flatten(Tail(lists))

\* commands.rs sort_models_by_provider
SortModelsByProvider(entries) ==
  LET groups == [g \in {entries[i].group : i \in 1..Len(entries)} |->
                   SelectSeq(entries, LAMBDA e : e.group = g)]
      ordered_groups == SortGroups(KeysAscending(DOMAIN groups))
  IN Flatten([i \in 1..Len(ordered_groups) |->
                SortByName(groups[ordered_groups[i]])])

Shown(filtered, ordered) == [filtered |-> filtered, ordered |-> ordered]

\* ------------------------------------------------------------- questions
\* app.rs QuestionState; a label and the custom answer are strings, kept as
\* sequences of characters
QuestionState(id, options, allow_multiple, allow_custom) ==
  [id |-> id, options |-> options, allow_multiple |-> allow_multiple,
   allow_custom |-> allow_custom,
   selected |-> [i \in 1..Len(options) |-> i = 1],
   focused_index |-> 0, custom_input |-> <<>>, custom_active |-> FALSE]
NoQuestion ==
  [QuestionState("none", <<>>, FALSE, FALSE) EXCEPT !.focused_index = 0]

\* what get_pending_question can answer with (main.rs:268-287)
PendingQuestions ==
  { QuestionState("q1", << <<"o1">>, <<"o2">> >>, TRUE, TRUE),
    QuestionState("q2", << <<"o1">> >>, FALSE, FALSE) }

\* main.rs UiUpdate
QuestionUpdate(q) == [kind |-> "Question", question |-> q, list |-> <<>>]
QuestionNone == [kind |-> "QuestionNone", question |-> NoQuestion, list |-> <<>>]
TodosUpdate(list) == [kind |-> "Todos", question |-> NoQuestion, list |-> list]

\* what a list_todos reply can hold
TodoLists == {<<>>, <<"t1">>}

\* ------------------------------------------------ threads and remote calls
\* `client.lock().unwrap().call(..)` on the UI thread: the handler stops here
\* until call() returns, and UiResume runs the rest of it
UiCall(job) ==
  /\ pc' = [pc EXCEPT !["ui"] = "lock"]
  /\ calling' = [calling EXCEPT !["ui"] = job]
  /\ UNCHANGED <<next_id, lockOwner, pending, callId, chan, result, stdinFrames,
                 stdoutPipe, workerAlive, readerDone, notifyChan, issued,
                 linesEmitted, notifEmitted, applied, dropped>>

\* std::thread::spawn(move || { client.lock().unwrap().call(..) })
Spawn_twice(job) == spawned' = Append(Append(spawned, job), job)
Spawn(job) == spawned' = Append(spawned, job)

RemoveAt(q, i) == SubSeq(q, 1, i - 1) \o SubSeq(q, i + 1, Len(q))

\* a spawned closure starts to run and reaches client.lock()
ThreadRun(c) ==
  /\ pc[c] = "idle"
  /\ calling[c] = NoJob
  /\ \E i \in 1..Len(spawned) :
       /\ calling' = [calling EXCEPT ![c] = spawned[i]]
       /\ spawned' = RemoveAt(spawned, i)
  /\ pc' = [pc EXCEPT ![c] = "lock"]
  /\ UNCHANGED <<next_id, lockOwner, pending, callId, chan, result, stdinFrames,
                 stdoutPipe, workerAlive, readerDone, notifyChan, issued,
                 linesEmitted, notifEmitted, applied, dropped>>
  /\ UNCHANGED <<sessionVars, editVars, renderVars, should_quit, overlayVars, lastEsc, lastNotif, extraVars>>

\* call() has returned in a spawned closure: a poll sends what it found to
\* the main loop (main.rs:240-256, 267-294), and the closure ends
ThreadExit(c) ==
  /\ pc[c] = "idle"
  /\ calling[c] # NoJob
  /\ calling' = [calling EXCEPT ![c] = NoJob]
  /\ IF calling[c].method = "get_pending_question"
       THEN IF result[c].kind = "ok"
              THEN \E u \in {QuestionNone} \cup {QuestionUpdate(q) : q \in PendingQuestions} :
                     ui_rx' = Append(ui_rx, u)
              ELSE ui_rx' = Append(ui_rx, QuestionNone)
       ELSE IF calling[c].method = "list_todos"
         THEN IF result[c].kind = "ok"
                THEN \E list \in TodoLists : ui_rx' = Append(ui_rx, TodosUpdate(list))
                ELSE ui_rx' = Append(ui_rx, TodosUpdate(<<>>))
         ELSE UNCHANGED ui_rx
  /\ UNCHANGED <<spawned, should_quit, question, question_request_inflight>>
  /\ UNCHANGED <<transportVars, sessionVars, editVars, renderVars, listVars, lastEsc, lastNotif, extraVars>>

\* ---------------------------------------------------------------- the keys
\* what handle_key leaves alone on the arms that touch neither the buffer
\* nor the session state
KeyFrame ==
  /\ cursor' = ClampCursor(input, cursor)
  /\ UNCHANGED <<input, attachments, markerData, lastOp>>
  /\ UNCHANGED <<history_needs_refresh, timeline_revision, toast,
                 reindex_inflight, show_splash, auto_scroll, scroll_from_bottom,
                 reasoning_effort, firstSeen, lastEvent>>
  /\ UNCHANGED renderVars

\* what an Escape key found, and a bit that tells two presses apart
EscNote(m, loading, tick) == [mode |-> m, loading |-> loading, tick |-> tick]
NoEsc == EscNote("none", FALSE, FALSE)

\* `if app.state.is_loading` of the Escape branch (input.rs:123)
AbortOnEsc_normalOnly(loading, m) == loading /\ m = "Normal"
AbortOnEsc(loading, m) == loading

\* KeyCode::Esc in any mode (input.rs:122-134): handle_key returns before
\* handle_overlay_keys is reached
KeyEsc ==
  /\ UiIdle
  /\ AbortOnEsc(state.is_loading, mode) => CanCall
  /\ IF AbortOnEsc(state.is_loading, mode)
       THEN Spawn(Call("abort", "none", "none"))
       ELSE UNCHANGED spawned
  /\ mode' = "Normal"
  /\ dirty' = TRUE
  /\ lastEsc' = EscNote(mode, state.is_loading, ~lastEsc.tick)
  /\ KeyFrame
  /\ UNCHANGED <<state, calling, should_quit, overlayVars, lastNotif, extraVars>>
  /\ UNCHANGED transportVars

\* Ctrl+C in Normal mode (input.rs:142-148)
KeyCtrlC ==
  /\ UiIdle
  /\ mode = "Normal"
  /\ state.is_loading => CanCall
  /\ IF state.is_loading
       THEN /\ UiCall(Call("abort", "none", "none"))
            /\ UNCHANGED should_quit
       ELSE /\ should_quit' = TRUE
            /\ UNCHANGED <<calling, transportVars>>
  /\ KeyFrame
  /\ UNCHANGED <<state, mode, dirty, spawned, overlayVars, lastEsc, lastNotif, extraVars>>

\* Tab in Normal mode (input.rs:211-216)
KeyTab ==
  /\ UiIdle
  /\ mode = "Normal"
  /\ CanCall
  /\ LET next == IF state.agent = "build" THEN "plan" ELSE "build" IN
       /\ state' = [state EXCEPT !.agent = next]
       /\ UiCall(Call("set_agent", next, "mark_dirty"))
  /\ KeyFrame
  /\ UNCHANGED <<mode, dirty, spawned, should_quit, overlayVars, lastEsc, lastNotif, extraVars>>

\* ------------------------------------------------------------ submission
\* str::replace(ch, "") on the buffer's bytes
RECURSIVE RemoveChar(_, _)
RemoveChar(value, ch) ==
  IF value = <<>> THEN <<>>
  ELSE IF Head(value)[1] = ch THEN RemoveChar(Tail(value), ch)
  ELSE <<Head(value)>> \o RemoveChar(Tail(value), ch)

\* input.replace(PASTE_START, "").replace(PASTE_END, "").replace(IMAGE_MARKER, "")
\* (input.rs:273-277)
StripSentinels_pasteOnly(value) ==
  RemoveChar(RemoveChar(value, PASTE_START), PASTE_END)
StripSentinels(value) ==
  RemoveChar(RemoveChar(RemoveChar(value, PASTE_START), PASTE_END), IMAGE_MARKER)

\* str::trim on the buffer's bytes
RECURSIVE TrimStartBytes(_)
TrimStartBytes(value) ==
  IF value # <<>> /\ IsWhitespace(Head(value)[1])
    THEN TrimStartBytes(Tail(value)) ELSE value
RECURSIVE TrimEndBytes(_)
TrimEndBytes(value) ==
  IF value # <<>> /\ IsWhitespace(value[Len(value)][1])
    THEN TrimEndBytes(SubSeq(value, 1, Len(value) - 1)) ELSE value
TrimBytes(value) == TrimEndBytes(TrimStartBytes(value))

\* the characters typed before a message is sent: a letter and a blank
SubmitChars == {"a", " "}

\* KeyCode::Enter in Normal mode (input.rs:258-300) on a buffer that is not a
\* slash command; no '/' is typed here
KeyEnter ==
  /\ mode = "Normal"
  /\ pc["ui"] = "idle" /\ calling["ui"] = NoJob
  /\ LET content == TrimBytes(input) IN
       /\ ~(content # <<>> /\ content[1][1] = "/")
       /\ IF content # <<>> \/ attachments # <<>>
            THEN /\ CanCall
                 /\ Spawn(Job("send_message", "none", StripSentinels(input),
                              attachments, "none"))
                 /\ input' = <<>>
                 /\ cursor' = 0
                 /\ attachments' = <<>>
                 /\ markerData' = <<>>
                 /\ show_splash' = FALSE
                 /\ auto_scroll' = TRUE
                 /\ scroll_from_bottom' = 0
                 /\ dirty' = TRUE
            ELSE /\ cursor' = ClampCursor(input, cursor)
                 /\ UNCHANGED <<input, attachments, markerData, show_splash,
                                auto_scroll, scroll_from_bottom, dirty, spawned>>
  /\ lastOp' = Op("enter", "other", input, cursor, FALSE)
  /\ UNCHANGED <<transportVars, state, mode, history_needs_refresh,
                 timeline_revision, toast, reindex_inflight, reasoning_effort,
                 firstSeen, lastEvent>>
  /\ UNCHANGED <<renderVars, calling, should_quit, overlayVars, lastEsc, lastNotif, extraVars>>

\* ------------------------------------------------------ the command palette
\* page_size of the overlays (input.rs:377)
PageSize == 10

\* the characters typed into a query; 'j' and 'k' move the selection instead
QueryChars == {"h", "H", " "}
MoveKeys == {"Up", "Down", "PageUp", "PageDown"}

\* the selection and the paging offset are fitted to a list of n entries
\* (input.rs:421-433)
ClampSelection(n, selected, offset) ==
  IF n = 0
    THEN [selected |-> 0, offset |-> 0]
    ELSE LET sel == IF selected >= n THEN SatSub(n, 1) ELSE selected IN
         [selected |-> sel,
          offset |-> IF sel < offset THEN sel
                     ELSE IF sel >= offset + PageSize THEN sel + 1 - PageSize
                     ELSE offset]

\* what a palette key leaves alone
PaletteFrame ==
  /\ cursor' = ClampCursor(input, cursor)
  /\ dirty' = TRUE
  /\ UNCHANGED <<input, attachments, markerData, lastOp>>
  /\ UNCHANGED <<state, history_needs_refresh, timeline_revision, toast,
                 reindex_inflight, show_splash, auto_scroll, scroll_from_bottom,
                 reasoning_effort, firstSeen, lastEvent>>
  /\ UNCHANGED <<renderVars, threadVars, questionVars, pickerVars, lastEsc, lastNotif, extraVars>>
  /\ UNCHANGED transportVars

\* '/' on an empty buffer in Normal mode (input.rs:217-223)
KeySlash ==
  /\ UiIdle
  /\ mode = "Normal"
  /\ input = <<>>
  /\ mode' = "CommandPalette"
  /\ command_query' = <<>>
  /\ command_selected' = 0
  /\ command_offset' = 0
  /\ PaletteFrame

\* a key other than Escape and Enter in the palette (input.rs:375-436); the
\* list is filtered with the query as it was before the key
KeyPalette(k) ==
  /\ UiIdle
  /\ mode = "CommandPalette"
  /\ k \in QueryChars => Len(command_query) < MaxQueryLen
  /\ LET commands == FilterCommands(commands_list, command_query)
         max_index == SatSub(Len(commands), 1)
         edits == k \in QueryChars \cup {"Backspace"}
         moved ==
           CASE k = "Up" -> SatSub(command_selected, 1)
             [] k = "Down" -> IF command_selected + 1 < Len(commands)
                                THEN command_selected + 1 ELSE command_selected
             [] k = "PageUp" -> SatSub(command_selected, PageSize)
             [] k = "PageDown" -> Min(command_selected + PageSize, max_index)
             [] OTHER -> 0
         fit == ClampSelection(Len(commands), moved,
                               IF edits THEN 0 ELSE command_offset)
     IN
     /\ command_query' =
          CASE k = "Backspace" -> SubSeq(command_query, 1, SatSub(Len(command_query), 1))
            [] k \in QueryChars -> Append(command_query, k)
            [] OTHER -> command_query
     /\ command_selected' = fit.selected
     /\ command_offset' = fit.offset
  /\ UNCHANGED mode
  /\ PaletteFrame

\* -------------------------------------------------------- the model picker
ModelQueryChars == {"A"}

PickerFrame ==
  /\ cursor' = ClampCursor(input, cursor)
  /\ dirty' = TRUE
  /\ UNCHANGED <<input, attachments, markerData, lastOp>>
  /\ UNCHANGED <<state, history_needs_refresh, timeline_revision, toast,
                 reindex_inflight, show_splash, auto_scroll, scroll_from_bottom,
                 reasoning_effort, firstSeen, lastEvent>>
  /\ UNCHANGED <<renderVars, threadVars, questionVars, paletteVars, lastEsc, lastNotif, extraVars>>
  /\ UNCHANGED transportVars

\* the paging offset follows the selection (input.rs:536-540)
FollowSelection(selected, offset) ==
  IF selected < offset THEN selected
  ELSE IF selected >= offset + PageSize THEN selected + 1 - PageSize
  ELSE offset

\* a key of the model picker that makes no remote call (input.rs:479-556):
\* the movement keys, Backspace, a character, and Enter on the custom row
\* while the custom text is blank
KeyModel(k) ==
  /\ UiIdle
  /\ mode = "ModelPicker"
  /\ \E filtered \in {FilterModels(model_entries, model_query)} :
     \E ordered \in {SortModelsByProvider(filtered)} :
     LET total == Len(ordered) + 1
         typed == k \in ModelQueryChars
         selected ==
           CASE k = "Up" -> SatSub(model_selected, 1)
             [] k = "Down" -> IF model_selected + 1 < total
                                THEN model_selected + 1 ELSE model_selected
             [] k = "PageUp" -> SatSub(model_selected, PageSize)
             [] k = "PageDown" -> Min(model_selected + PageSize, SatSub(total, 1))
             [] typed /\ ~custom_model_mode -> 0
             [] OTHER -> model_selected
     IN
     /\ k = "Enter" => (model_selected >= Len(ordered) /\ Trim(custom_model_input) = <<>>)
     /\ typed =>
          Len(IF custom_model_mode THEN custom_model_input ELSE model_query)
            < MaxQueryLen
     /\ shown_models' = Shown(filtered, ordered)
     /\ model_selected' = selected
     /\ model_offset' = FollowSelection(selected,
                          IF typed /\ ~custom_model_mode THEN 0 ELSE model_offset)
     /\ custom_model_mode' =
          IF k = "Enter" /\ model_selected = Len(ordered) THEN TRUE
          ELSE custom_model_mode
     /\ custom_model_input' =
          CASE k = "Backspace" /\ custom_model_mode ->
                 SubSeq(custom_model_input, 1, SatSub(Len(custom_model_input), 1))
            [] typed /\ custom_model_mode -> Append(custom_model_input, k)
            [] OTHER -> custom_model_input
     /\ model_query' =
          CASE k = "Backspace" /\ ~custom_model_mode ->
                 SubSeq(model_query, 1, SatSub(Len(model_query), 1))
            [] typed /\ ~custom_model_mode -> Append(model_query, k)
            [] OTHER -> model_query
  /\ UNCHANGED <<mode, model_entries>>
  /\ PickerFrame

\* ------------------------------------------------------ the question prompt
\* app.rs select_option; idx counts from 0 as in the code
SelectOption(q, idx) ==
  IF q.options = <<>> THEN q
  ELSE IF q.allow_multiple
    THEN [q EXCEPT !.selected =
            [i \in 1..Len(q.selected) |->
               IF i = idx + 1 THEN ~q.selected[i] ELSE q.selected[i]]]
    ELSE [q EXCEPT !.selected = [i \in 1..Len(q.selected) |-> i = idx + 1]]

RECURSIVE SelectedLabels(_, _)
SelectedLabels(q, i) ==
  IF i > Len(q.options) THEN <<>>
  ELSE (IF i <= Len(q.selected) /\ q.selected[i] THEN <<q.options[i]>> ELSE <<>>)
         \o SelectedLabels(q, i + 1)

\* app.rs collect_answers
CollectAnswers(q) ==
  SelectedLabels(q, 1)
    \o (IF q.allow_custom /\ Trim(q.custom_input) # <<>>
          THEN <<Trim(q.custom_input)>> ELSE <<>>)

\* the keys pressed in the question prompt; "x" is a letter, "1" a digit
QuestionKeys == {"Up", "Down", "Space", "Enter", "Backspace", "x", "1"}

\* client.lock().unwrap().call("answer_question", {id, answers}); the
\* question is dropped once the call has returned
AnswerQuestion(q, answers) ==
  UiCall([Call("answer_question", q.id, "answered") EXCEPT !.answers = answers])

\* handle_overlay_keys in QuestionPrompt mode (input.rs:643-731), on every key
\* but Esc, which handle_key takes first
KeyQuestion(k) ==
  /\ UiIdle
  /\ mode = "QuestionPrompt"
  /\ (k \in {"x", "1"} /\ question.custom_active) =>
       Len(question.custom_input) < MaxCustomLen
  /\ LET q == question
         total_options == Len(q.options) + (IF q.allow_custom THEN 1 ELSE 0)
         answer ==
           IF q = NoQuestion THEN <<>>
           ELSE CASE k = "Enter" /\ q.custom_active ->
                       IF Trim(q.custom_input) # <<>>
                         THEN <<Trim(q.custom_input)>> ELSE <<>>
                  [] k = "Enter" /\ ~q.custom_active
                       /\ ~(q.allow_custom /\ q.focused_index = Len(q.options)) ->
                       IF q.allow_multiple /\ CollectAnswers(q) # <<>>
                         THEN CollectAnswers(q)
                       ELSE IF q.focused_index < Len(q.options)
                         THEN <<q.options[q.focused_index + 1]>>
                         ELSE <<>>
                  [] k = "1" /\ ~q.custom_active ->
                       IF 0 < Len(q.options) THEN <<q.options[1]>> ELSE <<>>
                  [] OTHER -> <<>>
         after ==
           IF q = NoQuestion THEN q
           ELSE CASE k = "Up" ->
                       IF ~q.custom_active
                         THEN [q EXCEPT !.focused_index = Max(q.focused_index - 1, 0)]
                         ELSE q
                  [] k = "Down" ->
                       IF ~q.custom_active /\ total_options > 0
                         THEN [q EXCEPT !.focused_index =
                                 IF q.focused_index + 1 < total_options - 1
                                   THEN q.focused_index + 1 ELSE total_options - 1]
                         ELSE q
                  [] k = "Space" ->
                       IF q.allow_multiple /\ ~q.custom_active
                         THEN IF q.focused_index < Len(q.options)
                                THEN SelectOption(q, q.focused_index)
                              ELSE IF q.allow_custom
                                THEN [q EXCEPT !.custom_active = TRUE]
                                ELSE q
                         ELSE q
                  [] k = "Enter" ->
                       IF ~q.custom_active /\ q.allow_custom
                            /\ q.focused_index = Len(q.options)
                         THEN [q EXCEPT !.custom_active = TRUE]
                         ELSE q
                  [] k = "Backspace" ->
                       IF q.custom_active /\ q.custom_input # <<>>
                         THEN [q EXCEPT !.custom_input =
                                 SubSeq(q.custom_input, 1, Len(q.custom_input) - 1)]
                         ELSE q
                  [] OTHER ->
                       IF q.custom_active
                         THEN [q EXCEPT !.custom_input = Append(q.custom_input, k)]
                         ELSE q
     IN IF answer # <<>>
          THEN /\ CanCall
               /\ AnswerQuestion(q, answer)
               /\ UNCHANGED <<question, dirty>>
          ELSE /\ question' = after
               /\ dirty' = TRUE
               /\ UNCHANGED <<calling, transportVars>>
  /\ KeyFrame
  /\ UNCHANGED <<state, mode, spawned, should_quit, question_request_inflight,
                 ui_rx, listVars, lastEsc, lastNotif, extraVars>>

\* ------------------------------------------------------- the poll threads
\* the question poll is due and none is in flight (main.rs:260-297)
QuestionPoll ==
  /\ UiIdle
  /\ state.session_id # "none"
  /\ ~question_request_inflight
  /\ CanCall
  /\ question_request_inflight' = TRUE
  /\ Spawn(Call("get_pending_question", state.session_id, "none"))
  /\ UNCHANGED <<calling, should_quit, question, ui_rx>>
  /\ UNCHANGED <<transportVars, sessionVars, editVars, renderVars, listVars, lastEsc, lastNotif, extraVars>>

\* the same question is already stored (main.rs:187-190)
SameQuestion_never(stored, arrived) == FALSE
SameQuestion(stored, arrived) ==
  stored # NoQuestion /\ stored.id = arrived.id

\* one round of `while let Ok(update) = ui_rx.try_recv()` (main.rs:178-202)
DrainUiUpdate ==
  /\ UiIdle
  /\ ui_rx # <<>>
  /\ ui_rx' = Tail(ui_rx)
  /\ LET update == Head(ui_rx) IN
       IF update.kind = "Todos"
         THEN /\ todos' = update.list
              /\ todos_request_inflight' = FALSE
              /\ dirty' = TRUE
              /\ UNCHANGED <<question, mode, question_request_inflight>>
         ELSE /\ IF update.kind = "Question" /\ ~SameQuestion(question, update.question)
                   THEN /\ question' = update.question
                        /\ mode' = "QuestionPrompt"
                        /\ dirty' = TRUE
                   ELSE UNCHANGED <<question, mode, dirty>>
              /\ question_request_inflight' = FALSE
              /\ UNCHANGED <<todos, todos_request_inflight>>
  /\ UNCHANGED <<state, history_needs_refresh, timeline_revision, toast,
                 reindex_inflight, show_splash, auto_scroll, scroll_from_bottom,
                 reasoning_effort, firstSeen, lastEvent>>
  /\ UNCHANGED <<transportVars, editVars, renderVars, threadVars, listVars, lastEsc, lastNotif>>
  /\ UNCHANGED <<historyVars, file_selected, todos_expanded>>

\* the todo poll is due and none is in flight (main.rs:230-258)
TodosPoll ==
  /\ UiIdle
  /\ state.session_id # "none"
  /\ todos_expanded \/ todos # <<>>
  /\ ~todos_request_inflight
  /\ CanCall
  /\ todos_request_inflight' = TRUE
  /\ Spawn(Call("list_todos", state.session_id, "none"))
  /\ UNCHANGED <<calling, should_quit, overlayVars>>
  /\ UNCHANGED <<transportVars, sessionVars, editVars, renderVars, lastEsc, lastNotif>>
  /\ UNCHANGED <<historyVars, file_selected, todos, todos_expanded>>

\* Ctrl+T in Normal mode (input.rs:206-210): the strip is toggled and
\* refresh_todos makes its call on the UI thread
KeyCtrlT ==
  /\ UiIdle
  /\ mode = "Normal"
  /\ state.session_id # "none"
  /\ CanCall
  /\ todos_expanded' = ~todos_expanded
  /\ dirty' = TRUE
  /\ UiCall(Call("list_todos", state.session_id, "todos_refreshed"))
  /\ KeyFrame
  /\ UNCHANGED <<state, mode, spawned, should_quit, overlayVars, lastEsc, lastNotif>>
  /\ UNCHANGED <<historyVars, file_selected, todos, todos_request_inflight>>

\* ------------------------------------------- the rest of a key's handler
\* call() has returned on the UI thread and the handler goes on; what every
\* continuation leaves alone
ResumeFrame ==
  /\ pc["ui"] = "idle"
  /\ calling["ui"] # NoJob
  /\ calling' = [calling EXCEPT !["ui"] = NoJob]
  /\ UNCHANGED <<history_needs_refresh, timeline_revision, auto_scroll,
                 scroll_from_bottom, firstSeen, lastEvent>>
  /\ UNCHANGED <<spawned, should_quit, question_request_inflight, ui_rx>>
  /\ UNCHANGED <<transportVars, renderVars, lastEsc, lastNotif>>
  /\ UNCHANGED <<file_selected, todos_expanded, todos_request_inflight>>

\* `let _ = call(..); app.mark_dirty()` (input.rs:214-215 and its like)
ResumeMarkDirty ==
  /\ dirty' = TRUE
  /\ UNCHANGED <<state, mode, toast, reindex_inflight, show_splash,
                 reasoning_effort, editVars, question, listVars, historyVars, todos>>

\* the question is answered (input.rs:680-681 and its like, then
\* mark_dirty at input.rs:729)
ResumeAnswered ==
  /\ question' = NoQuestion
  /\ mode' = "Normal"
  /\ dirty' = TRUE
  /\ UNCHANGED <<state, toast, reindex_inflight, show_splash, reasoning_effort,
                 editVars, listVars, historyVars, todos>>

\* app.rs refresh_todos after its call (app.rs:483-494); the reply may lack a
\* parseable list
ResumeTodos ==
  /\ IF result["ui"].kind = "ok"
       THEN /\ \E list \in TodoLists \cup {todos} : todos' = list
            /\ dirty' = TRUE
       ELSE UNCHANGED <<todos, dirty>>
  /\ UNCHANGED <<state, mode, toast, reindex_inflight, show_splash,
                 reasoning_effort, editVars, question, listVars, historyVars>>

\* a call with nothing after it (input.rs:144)
ResumeNothing ==
  /\ UNCHANGED <<state, mode, dirty, toast, reindex_inflight, show_splash,
                 reasoning_effort, editVars, question, listVars, historyVars, todos>>

\* ------------------------------------------------------- the file mention
\* App.file_index as ensure_file_index builds it from the project directory
\* (app.rs:358-418): the relative paths, in the order of the walk
FileIndex == << <<"a">>, <<"h">>, <<"x">> >>

\* app.rs filter_files
FilterFiles(index, query, max_results) ==
  LET lower == ToLowercase(query)
      hits == SelectSeq(index,
                LAMBDA path : lower = <<>> \/ Contains(ToLowercase(path), lower))
  IN SubSeq(hits, 1, Min(Len(hits), max_results))

\* app.rs file_query_from_input: the text between the last '@' before the
\* cursor and the cursor
FileQueryFromInput(value, cur) ==
  LET upto == Min(cur, Len(value))
      idx == RFind(value, upto, "@")
  IN IF idx = None THEN <<>> ELSE Decode(Slice(value, idx + 1, upto))

\* the files the overlay lists for a buffer (input.rs:438-440)
MentionResults(value, cur) ==
  FilterFiles(FileIndex, FileQueryFromInput(value, cur), PageSize)

\* the characters typed around a mention, and the bytes of the buffer they
\* are typed into
MentionChars == {"x", "@"}
MaxMentionBytes == 9

\* KeyCode::Char('@') in Normal mode on a buffer that does not then start
\* with a slash (input.rs:349-360)
KeyAt ==
  /\ UiIdle
  /\ mode = "Normal"
  /\ Len(input) + LenUtf8("@") <= MaxMentionBytes
  /\ LET c == ClampCursor(input, cursor) IN
     /\ input' = InsertStr(input, c, Utf8("@"))
     /\ cursor' = c + LenUtf8("@")
  /\ input'[1][1] # "/"
  /\ mode' = "FileMention"
  /\ file_selected' = 0
  /\ dirty' = TRUE
  /\ lastOp' = Op("other", "other", <<>>, 0, FALSE)
  /\ UNCHANGED <<attachments, markerData, toast>>
  /\ UNCHANGED <<transportVars, state, history_needs_refresh, timeline_revision,
                 reindex_inflight, show_splash, auto_scroll, scroll_from_bottom,
                 reasoning_effort, firstSeen, lastEvent>>
  /\ UNCHANGED <<renderVars, threadVars, overlayVars, lastEsc, lastNotif,
                 historyVars, todoVars>>

\* app.rs insert_file_mention
InsertFileMention(value, cur, path) ==
  LET idx == RFind(value, cur, "@") IN
  IF idx = None THEN [input |-> value, cursor |-> cur]
  ELSE [input |-> Slice(value, 0, idx + 1) \o Encode(path) \o Encode(<<" ">>)
                    \o Slice(value, cur, Len(value)),
        cursor |-> idx + 1 + Len(Encode(path)) + 1]

\* the Backspace arm of the file mention (input.rs:455-463): the code point
\* before the cursor is removed
MentionBackspace(value, cur) ==
  IF cur > 0
    THEN LET prev == PrevCharStart(value, cur) IN
         [input |-> Slice(value, 0, prev) \o Slice(value, cur, Len(value)),
          cursor |-> prev]
    ELSE [input |-> value, cursor |-> cur]

MentionKeys == {"Up", "Down", "Enter", "Backspace"}

\* a key other than Escape in the file mention (input.rs:437-478)
KeyMention(k) ==
  /\ UiIdle
  /\ mode = "FileMention"
  /\ LET c == ClampCursor(input, cursor)
         results == MentionResults(input, c)
         after ==
           CASE k = "Enter" /\ file_selected < Len(results) ->
                  InsertFileMention(input, c, results[file_selected + 1])
             [] k = "Backspace" -> MentionBackspace(input, c)
             [] k \in MentionChars ->
                  [input |-> InsertStr(input, c, Utf8(k)),
                   cursor |-> c + LenUtf8(k)]
             [] OTHER -> [input |-> input, cursor |-> c]
     IN
     /\ Len(after.input) <= MaxMentionBytes
     /\ input' = after.input
     /\ cursor' = after.cursor
     /\ file_selected' =
          CASE k = "Up" -> SatSub(file_selected, 1)
            [] k = "Down" -> IF file_selected + 1 < Len(results)
                               THEN file_selected + 1 ELSE file_selected
            [] OTHER -> file_selected
     /\ mode' =
          CASE k = "Enter" -> "Normal"
            [] k = "Backspace" /\ RFind(after.input, Len(after.input), "@") = None ->
                 "Normal"
            [] OTHER -> mode
  /\ dirty' = TRUE
  /\ lastOp' = Op("other", "other", <<>>, 0, FALSE)
  /\ UNCHANGED <<attachments, markerData, toast>>
  /\ UNCHANGED <<transportVars, state, history_needs_refresh, timeline_revision,
                 reindex_inflight, show_splash, auto_scroll, scroll_from_bottom,
                 reasoning_effort, firstSeen, lastEvent>>
  /\ UNCHANGED <<renderVars, threadVars, overlayVars, lastEsc, lastNotif,
                 historyVars, todoVars>>

\* Ctrl+W in Normal mode (input.rs:177-186): the word before the cursor goes
KeyCtrlW ==
  /\ UiIdle
  /\ mode = "Normal"
  /\ LET c == ClampCursor(input, cursor) IN
     IF c > 0
       THEN LET before == TrimEndBytes(Slice(input, 0, c))
                found == RFind(before, Len(before), " ")
                last_space == IF found = None THEN 0 ELSE found + 1
            IN /\ input' = Slice(before, 0, last_space) \o Slice(input, c, Len(input))
               /\ cursor' = last_space
               /\ dirty' = TRUE
       ELSE /\ cursor' = c
            /\ UNCHANGED <<input, dirty>>
  /\ lastOp' = Op("other", "other", <<>>, 0, FALSE)
  /\ UNCHANGED <<attachments, markerData, toast>>
  /\ EditFrame

\* ------------------------------------------------------------ the commands
\* the remote method execute_command calls for an action (commands.rs:109-173);
\* help:about calls none
CommandMethod(action) ==
  CASE action \in {"session:new", "session:clear"} -> "clear"
    [] action = "session:history" -> "list_sessions"
    [] action \in {"mode:plan", "mode:build"} -> "set_agent"
    [] action \in {"tool:reindex", "tool:revert"} -> "execute_tool"
    [] action = "tool:todos" -> "list_todos"
    [] action = "settings:model" -> "list_models"
    [] OTHER -> "none"

\* the sessions a list_sessions reply can hold
SessionLists == {<<>>, <<"sA">>, <<"sA", "sB">>}

\* what serde makes of a successful reply: the list it holds, or a value of
\* another shape; a list_models reply may also lack its `entries` field
Reply(shape, list) == [shape |-> shape, list |-> list]
SessionReplies ==
  {Reply("list", l) : l \in SessionLists} \cup {Reply("unparsable", <<>>)}
ModelReplies ==
  {Reply("list", l) : l \in {m \in ModelLists : Len(m) <= 1}}
    \cup {Reply("unparsable", <<>>), Reply("absent", <<>>)}

\* execute_command before its remote call (commands.rs:140-148)
CommandBeforeCall(action) ==
  /\ action = "tool:todos" => state.session_id # "none"
  /\ IF action = "tool:reindex"
       THEN /\ reindex_inflight' = TRUE
            /\ SetToast("Reindexing...")
       ELSE UNCHANGED <<reindex_inflight, toast, dirty>>
  /\ todos_expanded' = IF action = "tool:todos" THEN ~todos_expanded
                       ELSE todos_expanded

\* the end of the palette's Enter arm (input.rs:406-433): the selection is
\* fitted to the list that was filtered before the key
PaletteTail(commands) ==
  /\ command_query' = <<>>
  /\ LET fit == ClampSelection(Len(commands), command_selected, 0) IN
       /\ command_selected' = fit.selected
       /\ command_offset' = fit.offset

\* Enter in the palette (input.rs:402-411, 421-435): the selected command runs
KeyPaletteEnter ==
  /\ UiIdle
  /\ mode = "CommandPalette"
  /\ LET commands == FilterCommands(commands_list, command_query)
         action == IF command_selected < Len(commands)
                     THEN commands[command_selected + 1].action ELSE "none"
     IN
     IF CommandMethod(action) # "none"
       THEN /\ CanCall
            /\ CommandBeforeCall(action)
            /\ UiCall(Call(CommandMethod(action), action, "palette_command"))
            /\ UNCHANGED <<mode, paletteVars>>
       ELSE /\ mode' = IF action = "help:about" THEN "HelpAbout" ELSE "Normal"
            /\ PaletteTail(commands)
            /\ dirty' = TRUE
            /\ UNCHANGED <<calling, transportVars, reindex_inflight, toast,
                           todos_expanded>>
  /\ cursor' = ClampCursor(input, cursor)
  /\ UNCHANGED <<input, attachments, markerData, lastOp>>
  /\ UNCHANGED <<state, history_needs_refresh, timeline_revision, show_splash,
                 auto_scroll, scroll_from_bottom, reasoning_effort, firstSeen,
                 lastEvent>>
  /\ UNCHANGED <<renderVars, spawned, should_quit, questionVars, pickerVars,
                 lastEsc, lastNotif>>
  /\ UNCHANGED <<historyVars, file_selected, todos, todos_request_inflight>>

\* `splitn(2, ' ').next()`: the text up to the first blank
RECURSIVE FirstWord(_)
FirstWord(str) ==
  IF str = <<>> \/ Head(str) = " " THEN <<>>
  ELSE <<Head(str)>> \o FirstWord(Tail(str))

\* commands.rs parse_command: the commands whose name or shortcut is the first
\* word after the slash, of which find() takes the first
ParseCommand(content) ==
  LET name == ToLowercase(FirstWord(Tail(Trim(content)))) IN
  SelectSeq(commands_list,
    LAMBDA c : c.name = name \/ (c.has_shortcut /\ c.shortcut = name))

\* Enter in Normal mode on a buffer that starts with a slash (input.rs:258-271)
KeyEnterCommand ==
  /\ UiIdle
  /\ mode = "Normal"
  /\ LET content == Decode(TrimBytes(input))
         found == IF content # <<>> /\ content[1] = "/"
                    THEN ParseCommand(content) ELSE <<>>
         action == IF found # <<>> THEN found[1].action ELSE "none"
     IN
     /\ content # <<>> /\ content[1] = "/"
     /\ IF CommandMethod(action) # "none"
          THEN /\ CanCall
               /\ CommandBeforeCall(action)
               /\ UiCall(Call(CommandMethod(action), action, "entered_command"))
               /\ cursor' = ClampCursor(input, cursor)
               /\ UNCHANGED <<mode, input, attachments, markerData, lastOp>>
          ELSE /\ mode' = IF action = "help:about" THEN "HelpAbout" ELSE mode
               /\ IF found = <<>> THEN toast' = "Unknown command"
                                  ELSE UNCHANGED toast
               /\ input' = <<>>
               /\ cursor' = 0
               /\ attachments' = <<>>
               /\ markerData' = <<>>
               /\ lastOp' = Op("enter", "other", input, cursor, FALSE)
               /\ dirty' = TRUE
               /\ UNCHANGED <<calling, transportVars, reindex_inflight,
                              todos_expanded>>
  /\ UNCHANGED <<state, history_needs_refresh, timeline_revision, show_splash,
                 auto_scroll, scroll_from_bottom, reasoning_effort, firstSeen,
                 lastEvent>>
  /\ UNCHANGED <<renderVars, spawned, should_quit, overlayVars, lastEsc, lastNotif>>
  /\ UNCHANGED <<historyVars, file_selected, todos, todos_request_inflight>>

\* the list a reply to list_sessions or list_models is parsed into, and what
\* execute_command does with it (commands.rs:119-131, 153-174)
ListOpened_always(ok, reply) == TRUE
ListOpened(ok, reply) == ok /\ reply.shape = "list"

\* the notice of a list that could not be had
ListNotice(action, ok, reply) ==
  IF action = "session:history"
    THEN IF ok THEN "Failed to parse sessions" ELSE "Failed to load sessions"
    ELSE IF ~ok THEN "Failed to load models"
         ELSE IF reply.shape = "absent" THEN "Model list unavailable"
         ELSE "Failed to parse model list"

\* execute_command after its remote call has returned, and then the rest of
\* the key's arm: of the palette (input.rs:406-435) or of Enter in Normal mode
\* (input.rs:266-270)
ResumeCommand ==
  LET action == calling["ui"].arg
      ok == result["ui"].kind = "ok"
      palette == calling["ui"].then = "palette_command"
      after == IF palette THEN "Normal" ELSE mode
      cleared == ~palette \/ action \in {"session:new", "session:clear"}
  IN
  /\ \E reply \in (IF action = "session:history" THEN SessionReplies
                   ELSE IF action = "settings:model" THEN ModelReplies
                   ELSE {Reply("none", <<>>)}) :
       IF action \in {"session:history", "settings:model"}
         THEN IF ListOpened(ok, reply)
                THEN /\ mode' = IF action = "session:history"
                                  THEN "SessionHistory" ELSE "ModelPicker"
                     /\ session_list' = IF action = "session:history"
                                          THEN reply.list ELSE session_list
                     /\ session_selected' = IF action = "session:history"
                                              THEN 0 ELSE session_selected
                     /\ model_entries' = IF action = "settings:model"
                                           THEN reply.list ELSE model_entries
                     /\ model_query' = IF action = "settings:model"
                                         THEN <<>> ELSE model_query
                     /\ model_selected' = IF action = "settings:model"
                                            THEN 0 ELSE model_selected
                     /\ model_offset' = IF action = "settings:model"
                                          THEN 0 ELSE model_offset
                     /\ UNCHANGED toast
                ELSE /\ mode' = after
                     /\ toast' = ListNotice(action, ok, reply)
                     /\ UNCHANGED <<session_list, session_selected,
                                    model_entries, model_query, model_selected,
                                    model_offset>>
         ELSE /\ mode' = after
              /\ UNCHANGED <<toast, session_list, session_selected,
                             model_entries, model_query, model_selected,
                             model_offset>>
  /\ state' = CASE action = "mode:plan" -> [state EXCEPT !.agent = "plan"]
                [] action = "mode:build" -> [state EXCEPT !.agent = "build"]
                [] OTHER -> state
  /\ show_splash' = IF action \in {"session:new", "session:clear"}
                      THEN TRUE ELSE show_splash
  /\ IF cleared
       THEN /\ input' = <<>>
            /\ cursor' = 0
            /\ attachments' = <<>>
            /\ markerData' = <<>>
            /\ lastOp' = Op("enter", "other", input, cursor, FALSE)
       ELSE UNCHANGED editVars
  /\ IF action = "tool:todos" /\ ok
       THEN \E list \in TodoLists \cup {todos} : todos' = list
       ELSE UNCHANGED todos
  /\ IF palette
       THEN PaletteTail(FilterCommands(commands_list, command_query))
       ELSE UNCHANGED paletteVars
  /\ dirty' = TRUE
  /\ UNCHANGED <<reindex_inflight, reasoning_effort, question,
                 custom_model_mode, custom_model_input, shown_models,
                 session_offset, session_rename_active, session_rename_input>>

UiResume ==
  /\ ResumeFrame
  /\ CASE calling["ui"].then = "mark_dirty" -> ResumeMarkDirty
       [] calling["ui"].then = "answered" -> ResumeAnswered
       [] calling["ui"].then = "todos_refreshed" -> ResumeTodos
       [] calling["ui"].then \in {"palette_command", "entered_command"} ->
            ResumeCommand
       [] OTHER -> ResumeNothing

\* ---------------------------------------------------------------- shutdown
\* `if app.should_quit { break; }` (main.rs:226-228), the terminal is restored
\* and the main thread reaches client.lock() of main.rs:310
QuitLoop ==
  /\ pc["ui"] = "idle"
  /\ calling["ui"] = NoJob
  /\ should_quit
  /\ pc' = [pc EXCEPT !["ui"] = "shutdown"]
  /\ UNCHANGED <<next_id, lockOwner, pending, callId, chan, result, stdinFrames,
                 stdoutPipe, workerAlive, readerDone, notifyChan, issued,
                 linesEmitted, notifEmitted, applied, dropped>>
  /\ UNCHANGED <<sessionVars, editVars, uiVars>>

\* the lock is granted, BackendClient::shutdown kills the child
\* (backend.rs:168-170) and run_interactive returns (main.rs:312)
Shutdown ==
  /\ pc["ui"] = "shutdown"
  /\ ClientLockFree(lockOwner)
  /\ workerAlive' = FALSE
  /\ pc' = [pc EXCEPT !["ui"] = "exited"]
  /\ UNCHANGED <<next_id, lockOwner, pending, callId, chan, result, stdinFrames,
                 stdoutPipe, readerDone, notifyChan, issued, linesEmitted,
                 notifEmitted, applied, dropped>>
  /\ UNCHANGED <<sessionVars, editVars, uiVars>>

\* the process runs until the main thread has returned
Running == pc["ui"] # "exited"

\* ========================================================== specifications
InitExceptState ==
  /\ next_id = InitialNextId
  /\ lockOwner = "none"
  /\ pending = [k \in {} |-> "ui"]
  /\ pc = [c \in Callers |-> "idle"]
  /\ callId = [c \in Callers |-> 0]
  /\ chan = [c \in Callers |-> <<>>]
  /\ result = [c \in Callers |-> NoResult]
  /\ stdinFrames = <<>>
  /\ stdoutPipe = <<>>
  /\ workerAlive = TRUE
  /\ readerDone = FALSE
  /\ notifyChan = <<>>
  /\ issued = <<>>
  /\ linesEmitted = 0
  /\ notifEmitted = 0
  /\ applied = <<>>
  /\ dropped = {}
  /\ history_needs_refresh = FALSE
  /\ timeline_revision = 0
  /\ dirty = TRUE
  /\ toast = "none"
  /\ reindex_inflight = FALSE
  /\ show_splash = TRUE
  /\ auto_scroll = TRUE
  /\ scroll_from_bottom = 0
  /\ reasoning_effort = "off"
  /\ lastEvent = NoEvent
  /\ input = <<>>
  /\ cursor = 0
  /\ attachments = <<>>
  /\ markerData = <<>>
  /\ lastOp = NoOp
  /\ compact_view = FALSE
  /\ spinner_index = 0
  /\ timeline_cache_rev = 0
  /\ timeline_cache_width = 0
  /\ timeline_cache_compact = FALSE
  /\ timeline_cache = <<>>
  /\ lastRender = NoRender
  /\ lastEsc = NoEsc
  /\ lastNotif = NoTag
  /\ spawned = <<>>
  /\ calling = [c \in Callers |-> NoJob]
  /\ should_quit = FALSE
  /\ question = NoQuestion
  /\ question_request_inflight = FALSE
  /\ ui_rx = <<>>
  /\ command_query = <<>>
  /\ command_selected = 0
  /\ command_offset = 0
  /\ model_query = <<>>
  /\ model_selected = 0
  /\ model_offset = 0
  /\ custom_model_mode = FALSE
  /\ custom_model_input = <<>>
  /\ shown_models = Shown(<<>>, <<>>)
  /\ session_list = <<>>
  /\ session_selected = 0
  /\ session_offset = 0
  /\ session_rename_active = FALSE
  /\ session_rename_input = <<>>
  /\ file_selected = 0
  /\ todos = <<>>
  /\ todos_expanded = FALSE
  /\ todos_request_inflight = FALSE

\* App::new on the state of a fresh session
InitExceptPicker ==
  /\ InitExceptState
  /\ state = InitialState
  /\ firstSeen = <<>>

\* App::new
Init ==
  /\ InitExceptPicker
  /\ mode = "Normal"
  /\ model_entries = <<>>

\* the picker as execute_command opens it on a list_models reply
\* (commands.rs:153-162)
PickerInit ==
  /\ InitExceptPicker
  /\ mode = "ModelPicker"
  /\ model_entries \in ModelLists

Next ==
  \/ \E c \in Callers : CallEnter(c)
  \/ \E c \in Callers : CallStart(c)
  \/ \E c \in Callers : CallWrite(c)
  \/ \E c \in Callers : CallWriteFail(c)
  \/ \E c \in Callers : CallInsert(c)
  \/ \E c \in Callers : CallRecv(c)
  \/ WorkerRespond
  \/ WorkerNotify
  \/ WorkerJunk
  \/ WorkerExit
  \/ ReaderLine
  \/ ReaderEOF
  \/ ApplyNotification

Spec == Init /\ [][Next]_vars

EditNext ==
  \/ \E ch \in TypedChars : KeyChar(ch)
  \/ KeyBackspace
  \/ KeyLeft
  \/ KeyRight
  \/ \E data \in ImageData : KeyCtrlV(data)
  \/ \E outcome \in {"TooLarge", "ConversionError", "NotAvailable"} : KeyCtrlVNoImage(outcome)
  \/ \E text \in PasteTexts : HandlePaste(text)

EditSpec == Init /\ [][EditNext]_vars

DispNext == Dispatch

DispSpec == Init /\ [][DispNext]_vars

RenderNext ==
  \/ \E width \in Widths, height \in Heights : RenderFrame(width, height)
  \/ \E n \in LoopNotifs : DrainNotify(n)

RenderSpec == Init /\ [][RenderNext]_vars

\* the state the worker returns from initialize (main.rs:139-141): a fresh
\* session, or one that already has a timeline
StartStates ==
  {InitialState, [InitialState EXCEPT !.timeline_events = <<Ev("e1", "v1")>>]}

\* the widths of the timeline area; a terminal may report no columns
StartWidths == {0, 40}

\* App::new(state, ..) (main.rs:154)
StartInit ==
  /\ InitExceptState
  /\ state \in StartStates
  /\ firstSeen = [i \in 1..Len(state.timeline_events) |-> state.timeline_events[i].id]
  /\ mode = "Normal"
  /\ model_entries = <<>>

StartNext ==
  \/ \E width \in StartWidths, height \in Heights : RenderFrame(width, height)
  \/ \E n \in LoopNotifs : DrainNotify(n)

StartSpec == StartInit /\ [][StartNext]_vars

PaletteNext ==
  \/ KeySlash
  \/ \E k \in MoveKeys \cup QueryChars \cup {"Backspace"} : KeyPalette(k)
  \/ KeyEsc

PaletteSpec == Init /\ [][PaletteNext]_vars

PickerNext ==
  \/ \E k \in MoveKeys \cup ModelQueryChars \cup {"Backspace", "Enter"} : KeyModel(k)

PickerSpec == PickerInit /\ [][PickerNext]_vars

UiNext ==
  \/ KeyEsc
  \/ KeyCtrlC
  \/ KeyTab
  \/ UiResume
  \/ QuestionPoll
  \/ DrainUiUpdate
  \/ \E n \in UiNotifs : DrainNotify(n)
  \/ \E c \in BgThreads : ThreadRun(c)
  \/ \E c \in BgThreads : ThreadExit(c)
  \/ \E c \in UiThreads : CallStart(c)
  \/ \E c \in UiThreads : CallWrite(c)
  \/ \E c \in UiThreads : CallInsert(c)
  \/ \E c \in UiThreads : CallRecv(c)
  \/ WorkerReply
  \/ ReaderLine

UiSpec == Init /\ [][UiNext]_vars

\* the question prompt with its poll cycle
QuestionNext ==
  \/ \E k \in QuestionKeys : KeyQuestion(k)
  \/ KeyEsc
  \/ UiResume
  \/ QuestionPoll
  \/ DrainUiUpdate
  \/ \E c \in BgThreads : ThreadRun(c)
  \/ \E c \in BgThreads : ThreadExit(c)
  \/ \E c \in UiThreads : CallStart(c)
  \/ \E c \in UiThreads : CallWrite(c)
  \/ \E c \in UiThreads : CallInsert(c)
  \/ \E c \in UiThreads : CallRecv(c)
  \/ WorkerReply
  \/ ReaderLine

QuestionSpec == Init /\ [][QuestionNext]_vars

\* the two polls of the main loop, and the todo strip toggled by Ctrl+T
PollNext ==
  \/ KeyCtrlT
  \/ UiResume
  \/ TodosPoll
  \/ QuestionPoll
  \/ DrainUiUpdate
  \/ \E c \in BgThreads : ThreadRun(c)
  \/ \E c \in BgThreads : ThreadExit(c)
  \/ \E c \in UiThreads : CallStart(c)
  \/ \E c \in UiThreads : CallWrite(c)
  \/ \E c \in UiThreads : CallInsert(c)
  \/ \E c \in UiThreads : CallRecv(c)
  \/ WorkerReply
  \/ ReaderLine

PollSpec == Init /\ [][PollNext]_vars

\* the characters of the commands typed into the buffer, the length of the
\* buffer they are typed into, and the number of commands that make a call
CommandChars == {"/", "h", "m", "x"}
MaxCommandBytes == 2
MaxCommands == 2

\* the commands, run from the palette or typed after a slash
CommandNext ==
  \/ KeySlash
  \/ \E k \in {"Up", "Down", "PageDown"} : KeyPalette(k)
  \/ Len(issued) < MaxCommands /\ KeyPaletteEnter
  \/ Len(input) < MaxCommandBytes /\ \E ch \in CommandChars : KeyChar(ch)
  \/ KeyLeft
  \/ Len(issued) < MaxCommands /\ KeyEnterCommand
  \/ UiResume
  \/ CallStart("ui")
  \/ CallWrite("ui")
  \/ CallInsert("ui")
  \/ CallRecv("ui")
  \/ WorkerReply
  \/ ReaderLine

CommandSpec == Init /\ [][CommandNext]_vars

\* the texts pasted next to a mention: a word, and a word with a blank
MentionPastes == {<<"x">>, <<"x", " ">>}
\* the length of the buffer up to which characters are typed into a mention
MaxTypedBytes == 3

\* the file mention, with pastes and word deletion around it
MentionNext ==
  \/ KeyAt
  \/ \E k \in MentionKeys : KeyMention(k)
  \/ Len(input) < MaxTypedBytes /\ \E k \in MentionChars : KeyMention(k)
  \/ KeyEsc
  \/ KeyCtrlW
  \/ \E text \in MentionPastes : HandlePasteWithin(text, MaxMentionBytes)

MentionSpec == Init /\ [][MentionNext]_vars

\* quitting while the poll threads make their calls
ShutdownNext ==
  \/ KeyCtrlC
  \/ QuitLoop
  \/ Shutdown
  \/ QuestionPoll
  \/ DrainUiUpdate
  \/ Running /\ \E c \in BgThreads : ThreadRun(c)
  \/ Running /\ \E c \in BgThreads : ThreadExit(c)
  \/ Running /\ \E c \in BgThreads : CallStart(c)
  \/ Running /\ \E c \in BgThreads : CallWrite(c)
  \/ Running /\ \E c \in BgThreads : CallInsert(c)
  \/ Running /\ \E c \in BgThreads : CallRecv(c)
  \/ Running /\ WorkerReply
  \/ Running /\ ReaderLine

ShutdownSpec == Init /\ [][ShutdownNext]_vars

\* typing, erasing and moving over code points of every width
TypeNext ==
  \/ \E ch \in WideChars : KeyChar(ch)
  \/ KeyBackspace
  \/ KeyLeft
  \/ KeyRight
  \/ \E data \in ImageData : KeyCtrlV(data)

TypeSpec == Init /\ [][TypeNext]_vars

\* pastes and cursor moves only
PasteNext ==
  \/ \E text \in PasteTexts : HandlePasteWithin(text, MaxPasteBytes)
  \/ KeyLeft
  \/ KeyRight

PasteSpec == Init /\ [][PasteNext]_vars

\* the buffer up to the first message sent from it
SubmitNext ==
  \/ spawned = <<>> /\ \E ch \in SubmitChars : KeyChar(ch)
  \/ spawned = <<>> /\ KeyBackspace
  \/ spawned = <<>> /\ \E data \in ImageData : KeyCtrlV(data)
  \/ spawned = <<>> /\ \E text \in PasteTexts : HandlePaste(text)
  \/ KeyEnter

SubmitSpec == Init /\ [][SubmitNext]_vars

\* the Escape key in the modes of the UI. The palette, the plan actions and
\* the question prompt open on the way; the model picker, the session history
\* and the about box are open from the start, as after a command whose
\* list_models or list_sessions call returned an empty list
EscStartModes == {"Normal", "ModelPicker", "SessionHistory", "HelpAbout"}

EscInit ==
  /\ InitExceptPicker
  /\ mode \in EscStartModes
  /\ model_entries = <<>>

EscNext ==
  \/ KeyEsc
  \/ KeySlash
  \/ QuestionPoll
  \/ DrainUiUpdate
  \/ \E n \in UiNotifs : DrainNotify(n)
  \/ \E c \in BgThreads : ThreadRun(c)
  \/ \E c \in BgThreads : ThreadExit(c)
  \/ \E c \in BgThreads : CallStart(c)
  \/ \E c \in BgThreads : CallWrite(c)
  \/ \E c \in BgThreads : CallInsert(c)
  \/ \E c \in BgThreads : CallRecv(c)
  \/ WorkerReply
  \/ ReaderLine

EscSpec == EscInit /\ [][EscNext]_vars

\* =================================================================== claims

\* ---- C1: a response is delivered only to the call that issued its id.
\* Every reply queued on a caller's channel, and every reply a call has
\* returned, carries the id that call put in its request.
C1_ReplyRoutedToIssuer ==
  \A c \in Callers :
    /\ \A i \in 1..Len(chan[c]) : chan[c][i].id = callId[c]
    /\ result[c].kind \in {"ok", "error"} => result[c].id = result[c].for

\* a response for another id reached the reader while a call was pending; it
\* was dropped, and that call later returned with the reply for its own id
C1_Witness ==
  \E d \in dropped, c \in Callers :
    /\ d.other # {} /\ d.id \notin d.other
    /\ result[c].kind \in {"ok", "error"}
    /\ result[c].for \in d.other

\* ---- C2: when the reader thread has reached the end of the worker's output,
\* a call blocked on its reply returns (with a failure) instead of blocking:
\* its recv() is able to return.
C2_ClosedStreamFailsCall ==
  \A c \in Callers : (readerDone /\ pc[c] = "recv") => RecvReady(c)

\* ---- C3: the pending entry is in the table by the time the request is
\* sent, so the response to a request that was written is never dropped as
\* unmatched.
C3_ResponseFindsEntry ==
  \A d \in dropped : ~d.early

\* ---- C4: at most one call is between taking its id / writing its frame and
\* returning, across the UI thread and the background threads.
C4_OneCallInFlight ==
  Cardinality({c \in Callers : pc[c] \in {"write", "insert", "recv"}}) <= 1

\* a background call awaits its reply while the UI thread queues on the client
C4_Witness ==
  \E c \in Callers \ {"ui"} :
    /\ pc[c] = "recv"
    /\ pc["ui"] = "lock"

\* ---- C5: notifications are handled in the order the worker wrote them: the
\* k-th notification handled is the k-th notification line of the stream.
C5_NotificationsInOrder ==
  \A i \in 1..Len(applied) : applied[i].seq = i

\* two notifications were handled that had another line (a response or junk)
\* between them on the stream
C5_Witness ==
  /\ Len(applied) >= 2
  /\ applied[2].at > applied[1].at + 1
  /\ \E c \in Callers : result[c].kind \in {"ok", "error"}

\* ---- C6: request ids are 1, 2, 3, ... in call order, and no id is used by
\* two requests.
C6_IdsSequential ==
  /\ \A i \in 1..Len(issued) : issued[i] = i
  /\ \A i, j \in 1..Len(stdinFrames) :
       i < j => stdinFrames[i] < stdinFrames[j]

\* three calls were made, by at least two threads, one of them after a call
\* that failed on the closed pipe
C6_Witness ==
  /\ Len(issued) = MaxCalls
  /\ \E c, d \in Callers :
       /\ c # d
       /\ result[c].kind = "io_error"
       /\ callId[d] > result[c].for

\* ---- C7: the cursor is always a code-point boundary of the buffer and is
\* never strictly between a paste-start sentinel and its matching paste-end.
InsidePasteRegion(value, cur) ==
  \E s \in 0..(Len(value) - 1) :
    /\ value[s + 1] = <<PASTE_START, 0>>
    /\ Find(value, s, PASTE_END) # None
    /\ s + LenUtf8(PASTE_START) <= cur
    /\ cur <= Find(value, s, PASTE_END)

C7_CursorOutsideRegions ==
  /\ IsCharBoundary(input, cursor)
  /\ ~InsidePasteRegion(input, cursor)

\* ---- C8: the image sentinels of the buffer and the attachment entries agree
\* in number and in left-to-right order.
C8_MarkersMatchAttachments ==
  /\ ImageCount(input) = Len(attachments)
  /\ attachments = markerData

UpsertStep ==
  /\ timeline_revision' # timeline_revision
  /\ lastEvent' # NoEvent

C10_UpsertInPlace ==
  [][UpsertStep =>
       LET old == state.timeline_events
           new == state'.timeline_events
           ev == lastEvent'
           known == {i \in 1..Len(old) : old[i].id = ev.id}
       IN
       /\ known # {} =>
            /\ Len(new) = Len(old)
            /\ \A i \in 1..Len(old) :
                 IF i \in known THEN new[i] = ev ELSE new[i] = old[i]
       /\ known = {} => new = Append(old, ev)
       /\ EventIdsOf(new) = firstSeen']_vars

\* the middle one of three entries was replaced by an event with new content
C10_Witness ==
  /\ Len(state.timeline_events) = 3
  /\ lastEvent = state.timeline_events[2]
  /\ firstSeen = EventIdsOf(state.timeline_events)
  /\ timeline_revision = MaxRevision

\* ---- C11: two consecutive calls of the cached timeline builder at the same
\* width and compact flag, with no change of the session state in between
\* and the session not loading: the second call does not run the formatter
\* and returns the stored lines; while the session is loading every call runs
\* the formatter and leaves the cache as it was.
RenderStep == \E width \in Widths, height \in Heights : RenderFrame(width, height)

C11_CacheHitOnRepeat ==
  [][RenderStep =>
       LET now == lastRender'
           repeat == /\ lastRender.called
                     /\ ~lastRender.stale
                     /\ lastRender.width = now.width
                     /\ lastRender.compact = now.compact
       IN
       /\ (repeat /\ ~now.loading) =>
            /\ ~now.formatted
            /\ now.lines = timeline_cache
            /\ timeline_cache' = timeline_cache
       /\ now.loading =>
            /\ now.formatted
            /\ now.lines = BuildTimelineLines(state, compact_view, now.width,
                                              spinner_index')
            /\ UNCHANGED <<timeline_cache, timeline_cache_rev,
                           timeline_cache_width, timeline_cache_compact>>]_vars

\* a non-empty timeline was drawn twice in a row at the same width, the
\* second time from the cache
C11_Witness ==
  /\ lastRender.called
  /\ ~lastRender.loading
  /\ ~lastRender.formatted
  /\ lastRender.lines # <<>>
  /\ timeline_cache_width = 80
  /\ timeline_cache_rev = timeline_revision

\* ---- C12: issuing abort while the session is loading never blocks the UI
\* thread: no abort call is made on the UI thread itself, which would wait
\* there for the client's lock and for the worker's reply.
C12_AbortNeverBlocksUi ==
  \A c \in Callers :
    (calling[c].method = "abort" /\ pc[c] # "idle") => c # "ui"

\* ---- C13: while a remote call issued from a background thread (a
\* send_message or a poll) awaits its reply, the main loop keeps iterating:
\* the UI thread is inside no call of its own, where it would wait for the
\* client that the background call holds.
C13_LoopRunsDuringBackgroundCall ==
  \A c \in BgThreads :
    (/\ calling[c].method \in {"send_message", "get_pending_question"}
     /\ lockOwner = c
     /\ pc[c] = "recv")
      => pc["ui"] = "idle"

\* ---- C19: filtering the built-in command list with the query "h" gives a
\* list that holds the "history" command and does not hold "models".
NamesOf(commands) == {commands[i].name : i \in 1..Len(commands)}

C19_FilterH ==
  (mode = "CommandPalette" /\ command_query = <<"h">>) =>
     LET names == NamesOf(FilterCommands(commands_list, command_query)) IN
       /\ <<"h","i","s","t","o","r","y">> \in names
       /\ <<"m","o","d","e","l","s">> \notin names

\* ---- C20: sort_models_by_provider returns a permutation of its input in
\* which all entries of the "openai" group come first, sorted by name,
\* followed by the entries of the other groups in lexical group order, sorted
\* by name within each group.
IsOpenai(e) == ToLowercase(e.group) = openai
Occurrences(list, e) == Cardinality({i \in 1..Len(list) : list[i] = e})
IsPermutation(a, b) ==
  /\ Len(a) = Len(b)
  /\ \A i \in 1..Len(a) : Occurrences(a, a[i]) = Occurrences(b, a[i])
OpenaiComesFirst(out) ==
  \A i, j \in 1..Len(out) : (IsOpenai(out[i]) /\ ~IsOpenai(out[j])) => i < j
OthersByGroupThenName(out) ==
  \A i, j \in 1..Len(out) :
    (i < j /\ ~IsOpenai(out[i]) /\ ~IsOpenai(out[j])) =>
       \/ StrCmp(out[i].group, out[j].group) < 0
       \/ (out[i].group = out[j].group /\ StrCmp(out[i].name, out[j].name) <= 0)

C20_OpenaiFirstByName ==
  LET out == shown_models.ordered IN
  /\ IsPermutation(out, shown_models.filtered)
  /\ OpenaiComesFirst(out)
  /\ \A i, j \in 1..Len(out) :
       (i < j /\ IsOpenai(out[i]) /\ IsOpenai(out[j])) =>
          StrCmp(out[i].name, out[j].name) <= 0
  /\ OthersByGroupThenName(out)

\* C20 as amended: the entries whose group is "openai" in any letter case
\* come first, ordered by group string and by name within each group string;
\* the other groups follow in lexical order, each sorted by name.
C20_OpenaiFirstByGroupThenName ==
  LET out == shown_models.ordered IN
  /\ IsPermutation(out, shown_models.filtered)
  /\ OpenaiComesFirst(out)
  /\ \A i, j \in 1..Len(out) :
       (i < j /\ IsOpenai(out[i]) /\ IsOpenai(out[j])) =>
          \/ StrCmp(out[i].group, out[j].group) < 0
          \/ (out[i].group = out[j].group /\ StrCmp(out[i].name, out[j].name) <= 0)
  /\ OthersByGroupThenName(out)

\* a list that was not in order: an "openai" entry behind two other groups
\* that themselves stood in the wrong order
C20_Witness ==
  LET shown == shown_models.filtered IN
  /\ Len(shown) = 3
  /\ shown[1].group = anthropic
  /\ shown[2].group = Google
  /\ shown[3].group = openai
  /\ shown_models.ordered = <<shown[3], shown[2], shown[1]>>

\* ---- C17: a plan_exit_proposed notification changes the UI mode to
\* PlanActions if and only if its payload is the boolean true and the active
\* agent is "plan"; in every other case the UI mode is unchanged.
PlanExitNotifs == {n \in NotifInputs : n.method = "plan_exit_proposed"}

C17_PlanExitForcesPlanActions ==
  [][\A n \in PlanExitNotifs :
       HandleNotification(n) =>
         IF n.params = JsonBool(TRUE) /\ state.agent = "plan"
           THEN mode' = "PlanActions"
           ELSE mode' = mode]_vars

\* a proposal was accepted under the plan agent
C17_Witness ==
  /\ mode = "PlanActions"
  /\ state.agent = "plan"
  /\ dirty

\* ---- C18: when the main loop takes a pending question off the update
\* channel, a stored question with the same id keeps its substate (focus,
\* selections, custom input) and the UI mode stays as it is; otherwise the
\* delivered question is stored and the mode becomes QuestionPrompt. Either
\* way the question poll's in-flight flag is cleared.
UiUpdateTaken == ui_rx # <<>> /\ ui_rx' = Tail(ui_rx)

C18_QuestionDelivery ==
  [][UiUpdateTaken =>
       LET update == Head(ui_rx) IN
         /\ question_request_inflight' = FALSE
         /\ update.kind = "Question" =>
              IF question # NoQuestion /\ question.id = update.question.id
                THEN question' = question /\ mode' = mode
                ELSE question' = update.question /\ mode' = "QuestionPrompt"]_vars

\* the user has moved the focus and changed the selection of the displayed
\* question, and a later poll cycle delivers the same question again
C18_Witness ==
  /\ UiIdle
  /\ ui_rx # <<>>
  /\ Head(ui_rx).kind = "Question"
  /\ question # NoQuestion
  /\ Head(ui_rx).question.id = question.id
  /\ Head(ui_rx).question # question
  /\ question.focused_index > 0
  /\ mode = "QuestionPrompt"
  /\ question_request_inflight

\* ---- C14: in every UI mode, an Escape key pressed while the session is
\* loading issues an abort call, and an Escape key pressed while it is not
\* loading issues none.
EscPressed == lastEsc' # lastEsc
AbortJob == Call("abort", "none", "none")

C14_EscAbortsIffLoading ==
  [][EscPressed =>
       IF state.is_loading
         THEN spawned' = Append(spawned, AbortJob)
         ELSE spawned' = spawned /\ calling' = calling /\ pc' = pc]_vars

\* Escape was pressed in the question prompt while the session was loading,
\* and the thread it spawned is making the abort call
C14_Witness ==
  /\ lastEsc.mode = "QuestionPrompt"
  /\ lastEsc.loading
  /\ mode = "Normal"
  /\ calling["bg1"] = AbortJob
  /\ pc["bg1"] # "idle"

\* ---- C15: an Escape key pressed in an overlay performs that mode's own
\* Escape behaviour and returns to Normal, loading or not: in the question
\* prompt with the custom answer inactive it issues a skip_question call for
\* the displayed question and drops the question, in the plan actions it
\* issues a reset_plan_exit call, in the model picker it clears the custom
\* model flag and text.
IssuedByStep(method, arg) ==
  \/ /\ calling'["ui"] # calling["ui"]
     /\ calling'["ui"].method = method
     /\ calling'["ui"].arg = arg
  \/ /\ Len(spawned') > Len(spawned)
     /\ \E i \in 1..Len(spawned') :
          spawned'[i].method = method /\ spawned'[i].arg = arg

C15_EscRunsModeBehaviour ==
  [][EscPressed =>
       /\ mode' = "Normal"
       /\ (mode = "QuestionPrompt" /\ ~question.custom_active) =>
            /\ IssuedByStep("skip_question", question.id)
            /\ question' = NoQuestion \/ calling'["ui"].then = "answered"
       /\ mode = "PlanActions" => IssuedByStep("reset_plan_exit", "none")
       /\ mode = "ModelPicker" =>
            custom_model_mode' = FALSE /\ custom_model_input' = <<>>]_vars

\* ---- C16: on Enter with a non-empty buffer that is not a command, the
\* content of the send_message payload is the buffer with every paste-start,
\* paste-end and image sentinel removed, the attachments are forwarded in
\* their stored order, and buffer, cursor and attachments are cleared in the
\* same step; Enter with an empty buffer and no attachments sends nothing.
EnterPressed == lastOp'.op = "enter"
WithoutSentinels(value) == SelectSeq(value, LAMBDA b : b[1] \notin Sentinels)
HasText(value) == \E i \in 1..Len(value) : ~IsWhitespace(value[i][1])

MessageSent ==
  /\ Len(spawned') = Len(spawned) + 1
  /\ SubSeq(spawned', 1, Len(spawned)) = spawned
  /\ LET job == spawned'[Len(spawned')] IN
       /\ job.method = "send_message"
       /\ job.content = WithoutSentinels(input)
       /\ job.attachments = attachments
  /\ input' = <<>>
  /\ cursor' = 0
  /\ attachments' = <<>>

C16_EnterSendsBuffer ==
  [][EnterPressed =>
       /\ input # <<>> => MessageSent
       /\ (input = <<>> /\ attachments = <<>>) => spawned' = spawned]_vars

\* C16 as it holds: the buffer must hold something besides whitespace.
C16_EnterSendsTrimmedNonEmptyBuffer ==
  [][EnterPressed =>
       /\ HasText(input) => MessageSent
       /\ (input = <<>> /\ attachments = <<>>) => spawned' = spawned]_vars

\* a buffer with a pasted block, an image and typed text has been sent
C16_Witness ==
  /\ lastOp.op = "enter"
  /\ \E i \in 1..Len(lastOp.input) : lastOp.input[i][1] = PASTE_START
  /\ \E i \in 1..Len(lastOp.input) : lastOp.input[i][1] = IMAGE_MARKER
  /\ Len(spawned) = 1
  /\ spawned[1].method = "send_message"
  /\ spawned[1].content # <<>>
  /\ spawned[1].attachments # <<>>
  /\ input = <<>>
  /\ attachments = <<>>

\* ---- C21: shutdown does not wait for requests in flight: once the user has
\* quit and the main thread has left its loop, it can kill the worker at
\* once, whether or not a background thread's request is still unanswered.
C21_ShutdownDoesNotWait ==
  (/\ pc["ui"] = "shutdown"
   /\ \E c \in BgThreads : pc[c] = "recv" /\ Len(chan[c]) = 0)
    => ClientLockFree(lockOwner)

\* ---- C22: a remote call answered with an error field is a no-op for the
\* client-side state it was meant to change: when set_agent has returned an
\* error, the active agent is the one from before the key was pressed, not
\* the one the call asked for.
C22_ErrorResponseIsNoOp ==
  (/\ calling["ui"].method = "set_agent"
   /\ pc["ui"] = "idle"
   /\ result["ui"].kind = "error")
    => state.agent # calling["ui"].arg

\* ---- C23: a notification with an unrecognised method name, or a state or
\* timeline_event notification whose payload does not parse into the expected
\* shape, leaves the session state, the timeline, the revision counter and
\* the UI mode unchanged.
KnownMethods ==
  {"state", "timeline_event", "tokens_update", "context_status",
   "plan_exit_proposed", "session_changed", "error"}

Ignored(tag) ==
  \/ tag.method \notin KnownMethods
  \/ tag.method = "state" /\ tag.shape # "chatstate"
  \/ tag.method = "timeline_event" /\ tag.shape # "event"

C23_IgnoredNotificationChangesNothing ==
  [][Ignored(lastNotif') =>
       /\ state' = state
       /\ timeline_revision' = timeline_revision
       /\ mode' = mode]_vars

\* after a timeline has been built and the plan actions opened, a state
\* notification with a null payload was handled
C23_Witness ==
  /\ lastNotif.method = "state"
  /\ lastNotif.shape = "null"
  /\ state.timeline_events # <<>>
  /\ timeline_revision > 0
  /\ mode = "PlanActions"

\* ---- C30: every notification that is applied sets the dirty flag, and the
\* timeline revision counter goes up by one on exactly the notifications that
\* change the timeline, the full-state replace and the timeline-event upsert:
\* tokens_update, context_status, session_changed, plan_exit_proposed and
\* error notifications leave the counter as it is.
Applied(tag) ==
  /\ ~Ignored(tag)
  /\ tag.method \in {"context_status", "error"} => tag.shape = "string"

ChangesTimeline(tag) == tag.method \in {"state", "timeline_event"}

LineTaken == stdoutPipe # <<>> /\ stdoutPipe' = Tail(stdoutPipe)

C24_ReaderSkipsAndGoesOn ==
  [][LineTaken =>
       LET line == Head(stdoutPipe)
           known == line.type = "resp" /\ line.id \in DOMAIN pending
           skipped == line.type = "junk"
                        \/ (line.type = "resp" /\ line.id \notin DOMAIN pending)
       IN
       /\ ~readerDone'
       /\ skipped => (chan' = chan /\ pending' = pending /\ notifyChan' = notifyChan)
       /\ known =>
            /\ chan'[pending[line.id]] =
                 Append(chan[pending[line.id]], [id |-> line.id, error |-> line.error])
            /\ line.id \notin DOMAIN pending'
       /\ line.type = "notif" =>
            /\ Len(notifyChan') = Len(notifyChan) + 1
            /\ notifyChan'[Len(notifyChan')].notif = line.notif]_vars

\* a response with no pending entry was skipped while another call was
\* pending; that call has since returned with its own reply, and the reader
\* has taken every line written so far
C24_Witness ==
  /\ \E d \in dropped : \E c \in Callers :
       /\ result[c].kind = "ok"
       /\ result[c].id \in d.other
       /\ result[c].id = result[c].for
  /\ Len(stdoutPipe) = 0
  /\ ~readerDone

\* ---- C25: Backspace with the cursor just after the k-th image sentinel of
\* the buffer removes that sentinel and the k-th attachment, and leaves the
\* other attachments in their order.
BackspacePressed == lastOp'.op = "backspace"

AfterImage(value, cur) ==
  /\ cur >= LenUtf8(IMAGE_MARKER)
  /\ IsCharBoundary(value, cur)
  /\ value[cur] = <<IMAGE_MARKER, LenUtf8(IMAGE_MARKER) - 1>>

C25_BackspaceDropsKthAttachment ==
  [][(BackspacePressed /\ AfterImage(input, cursor)) =>
       LET k == ImageCount(Slice(input, 0, cursor)) IN
         /\ input' = Slice(input, 0, cursor - LenUtf8(IMAGE_MARKER))
                       \o Slice(input, cursor, Len(input))
         /\ k <= Len(attachments) => attachments' = RemoveAt(attachments, k)]_vars

\* ---- C26: a paste wraps the text in paste-start and paste-end sentinels
\* only when the text has at least 3 lines or at least 150 bytes; a text
\* below both thresholds goes into the buffer raw, with no sentinel added.
SentinelBytes(value) ==
  Cardinality({i \in 1..Len(value) : value[i][1] \in Sentinels})

C26_SmallPasteIsRaw ==
  [][\A text \in PasteTexts :
       (HandlePaste(text) /\ ~IsLarge(text)) =>
         /\ SentinelBytes(input') = SentinelBytes(input)
         /\ input' = InsertStr(input, ClampCursor(input, cursor), Encode(text))]_vars

\* ---- C27: a paste with the cursor just after a paste-end sentinel or just
\* before a paste-start sentinel puts the text inside that region and adds no
\* sentinel; after any pastes and cursor moves no paste-start sentinel lies
\* between another paste-start and its paste-end.
StartsOf(value) == {i \in 1..Len(value) : value[i] = <<PASTE_START, 0>>}
EndsOf(value) == {i \in 1..Len(value) : value[i] = <<PASTE_END, 0>>}

NoNestedRegion(value) ==
  \A s1, s2 \in StartsOf(value) :
    s1 < s2 => \E e \in EndsOf(value) : s1 < e /\ e < s2

C27_PasteExtendsNeverNests ==
  [][lastOp'.op = "paste" =>
       /\ lastOp'.adjacent => SentinelBytes(input') = SentinelBytes(input)
       /\ NoNestedRegion(input')]_vars

\* ---- C28: Left and Right move the cursor by one code point (not at all at
\* offset 0 and at the end), except that Left from just after a paste-end lands
\* on the matching paste-start and Right from a paste-start lands just after the
\* matching paste-end; on a well-formed buffer a Right that moves followed by
\* Left, or a Left that moves followed by Right, brings the cursor back.
PasteSentinelsOf(value) == StartsOf(value) \cup EndsOf(value)

\* paste sentinels alternate start, end, start, end, ...
WellFormed(value) ==
  \A i \in PasteSentinelsOf(value) :
    LET rank == Cardinality({j \in PasteSentinelsOf(value) : j <= i}) IN
    (i \in StartsOf(value)) <=> (rank % 2 = 1)
  /\ Cardinality(PasteSentinelsOf(value)) % 2 = 0

RightTarget(value, c) ==
  LET ch == CharAt(value, c) IN
  IF c = Len(value) THEN c
  ELSE IF ch = PASTE_START /\ Find(value, c, PASTE_END) # None
         THEN Find(value, c, PASTE_END) + LenUtf8(PASTE_END)
         ELSE c + LenUtf8(ch)

LeftTarget(value, c) ==
  LET prev == PrevCharStart(value, c) IN
  IF c = 0 THEN 0
  ELSE IF value[prev + 1][1] = PASTE_END /\ RFind(value, prev, PASTE_START) # None
         THEN RFind(value, prev, PASTE_START)
         ELSE prev

C28_LeftRightMoves ==
  [][LET c == ClampCursor(input, cursor) IN
     /\ KeyRight =>
          /\ cursor' = RightTarget(input, c)
          /\ (WellFormed(input) /\ cursor' # c) => CursorLeft(input, cursor') = c
     /\ KeyLeft =>
          /\ cursor' = LeftTarget(input, c)
          /\ (WellFormed(input) /\ cursor' # c) => CursorRight(input, cursor') = c]_vars

\* ---- C29: typing a character splices it at the cursor and advances the
\* cursor by its byte width; Backspace after an ordinary (non-sentinel) code
\* point removes exactly that code point, whatever its width, moves the cursor
\* back by that width and leaves the rest of the buffer alone; Backspace at
\* offset 0 changes nothing.
C29_TypeAndBackspace ==
  [][LET c == ClampCursor(input, cursor) IN
     /\ \A ch \in WideChars :
          KeyChar(ch) =>
            /\ input' = Slice(input, 0, c) \o Utf8(ch) \o Slice(input, c, Len(input))
            /\ cursor' = c + LenUtf8(ch)
     /\ (BackspacePressed /\ c = 0) =>
          /\ cursor' = 0
          /\ UNCHANGED <<input, attachments>>
     /\ (BackspacePressed /\ c > 0 /\ input[c][1] \notin Sentinels) =>
          LET w == LenUtf8(input[c][1]) IN
          /\ input' = Slice(input, 0, c - w) \o Slice(input, c, Len(input))
          /\ cursor' = c - w
          /\ UNCHANGED attachments]_vars

\* Backspace has just removed a 4-byte code point from the middle of a buffer
\* that also holds an image sentinel
C29_Witness ==
  /\ lastOp.op = "backspace"
  /\ lastOp.after = "other"
  /\ lastOp.input = Utf8("c4")
  /\ 0 < cursor
  /\ cursor < Len(input)
  /\ ImageCount(input) > 0

\* ---- C33: in the command palette and in the model picker every key that
\* changes the query text (a character appended, or one deleted by Backspace)
\* puts the selection index and the paging offset back to 0.
C33_QueryChangeResetsSelection ==
  [][/\ (mode = "CommandPalette" /\ command_query' # command_query) =>
          (command_selected' = 0 /\ command_offset' = 0)
     /\ (mode = "ModelPicker" /\ model_query' # model_query) =>
          (model_selected' = 0 /\ model_offset' = 0)]_vars

\* ---- C34: whenever the mode becomes Normal, by Escape, by a commit or by any
\* other transition, the transient substate of the other modes is cleared: the
\* command query, the model query, the custom-model flag and text, the
\* session-rename flag and text and the stored question are all empty.
BecomesNormal == mode # "Normal" /\ mode' = "Normal"

C34_NormalClearsSubstate ==
  [][BecomesNormal =>
       /\ command_query' = <<>>
       /\ model_query' = <<>>
       /\ ~custom_model_mode'
       /\ custom_model_input' = <<>>
       /\ ~session_rename_active'
       /\ session_rename_input' = <<>>
       /\ question' = NoQuestion]_vars

\* ---- C40: after any sequence of key events, poll results and notifications
\* the mode is QuestionPrompt if and only if a question is stored.
C40_ModeAgreesWithQuestion ==
  (mode = "QuestionPrompt") <=> (question # NoQuestion)

\* ---- C36: the pending-request table never holds more than one entry, and it
\* is empty whenever no call is in progress: an entry is inserted only by the
\* call that holds the client, and it is gone when that call returns.
InCall(c) == pc[c] \in {"write", "insert", "recv"}

C36_PendingAtMostOne ==
  /\ Cardinality(DOMAIN pending) <= 1
  /\ \A k \in DOMAIN pending : lockOwner = pending[k] /\ pc[pending[k]] = "recv"
  /\ (\A c \in Callers : ~InCall(c)) => DOMAIN pending = {}

\* two calls have inserted an entry and returned with their replies
C36_Witness ==
  /\ DOMAIN pending = {}
  /\ \A c \in Callers : ~InCall(c)
  /\ \E c, d \in Callers :
       /\ c # d
       /\ result[c].kind = "ok"
       /\ result[d].kind \in {"ok", "error"}

\* ---- C37: the UI thread, the background call threads and the reader thread
\* never deadlock on the client mutex and the pending table: the reader can
\* always take the next line, and a call whose reply the worker has put on the
\* stream returns, so no call is left waiting after the reader has consumed
\* its reply.
ReplyConsumed(c) == \E d \in dropped : d.id = callId[c]

C37_NoCallWaitsForConsumedReply ==
  /\ (stdoutPipe # <<>> /\ ~readerDone) => ENABLED ReaderLine
  /\ \A c \in Callers : (pc[c] = "recv" /\ chan[c] = <<>>) => ~ReplyConsumed(c)

\* ---- C39: whenever the cached timeline builder returns the stored lines,
\* they equal what formatting the current session state at the current width
\* and compact flag produces; this holds from the first frame on, when the
\* cache is empty and its key is (revision 0, width 0, compact false).
C39_CacheHitIsFresh ==
  [][\A width \in StartWidths \cup Widths, height \in Heights :
       (RenderFrame(width, height) /\ ~lastRender'.formatted) =>
         lastRender'.lines =
           BuildTimelineLines(state, compact_view, width, spinner_index')]_vars

\* ---- C38: at most one list_todos poll thread and at most one
\* get_pending_question poll thread exist at a time; a poll thread sends
\* exactly one update whether its call succeeds or fails, and the in-flight
\* flag of its kind is cleared when the main loop takes that update, so that
\* the next poll can start.
PollThreads(method) ==
  Cardinality({i \in 1..Len(spawned) : spawned[i].method = method})
    + Cardinality({c \in BgThreads : calling[c].method = method})

Updates(kinds) == Cardinality({i \in 1..Len(ui_rx) : ui_rx[i].kind \in kinds})

\* a poll of this kind is outstanding: its thread, or the update it sent
Outstanding(method, kinds) == PollThreads(method) + Updates(kinds)

C38_OnePollPerKind ==
  /\ Outstanding("list_todos", {"Todos"}) = (IF todos_request_inflight THEN 1 ELSE 0)
  /\ Outstanding("get_pending_question", {"Question", "QuestionNone"})
       = (IF question_request_inflight THEN 1 ELSE 0)

\* a todo poll waits for its reply after the poll before it failed and the
\* update that poll sent was taken
C38_Witness ==
  \E c \in BgThreads :
    /\ pc[c] = "recv"
    /\ calling[c].method = "list_todos"
    /\ callId[c] = result[c].for + 1
    /\ result[c].kind = "error"
    /\ ui_rx = <<>>
    /\ ~question_request_inflight
\* ---------------------------------------------------------------------- C31
ListCallReturns(method) ==
  calling["ui"].method = method /\ calling'["ui"] = NoJob

ModelNotices ==
  {"Failed to load models", "Model list unavailable", "Failed to parse model list"}
SessionNotices == {"Failed to load sessions", "Failed to parse sessions"}

C32_SelectionWithinList ==
  /\ mode = "CommandPalette" =>
       command_selected < Max(1, Len(FilterCommands(commands_list, command_query)))
  /\ mode = "FileMention" =>
       file_selected < Max(1, Len(MentionResults(input, ClampCursor(input, cursor))))
  /\ mode = "ModelPicker" =>
       model_selected <= Len(FilterModels(model_entries, model_query))
  /\ mode = "SessionHistory" =>
       session_selected < Max(1, Len(session_list))
  /\ mode = "QuestionPrompt" =>
       question.focused_index
         < Max(1, Len(question.options) + (IF question.allow_custom THEN 1 ELSE 0))

\* ---------------------------------------------------------------------- C35
\* C35: in every mode and after every key and paste the paste sentinels of
\* the buffer alternate, beginning with a start and ending with an end
C35_SentinelsWellFormed == WellFormed(input)

====
